---- MODULE Spec2Model ----
(***************************************************************************)
(* A model of the wasm-go interpreter: the value representation, the       *)
(* generic stack, the memory instance, the instruction variants and the    *)
(* invoker returned by Interpreter.GetFunc with its dispatch loop.         *)
(*                                                                         *)
(* Go's fixed-width integers are kept at their width: an int32 is an       *)
(* integer in MinInt32..MaxInt32 and every int32 operation wraps.  A Value *)
(* carries its payload as the little-endian byte sequence binary.Write     *)
(* produced for it, so reading a payload back is a real decoding.          *)
(***************************************************************************)
EXTENDS Integers, Sequences, FiniteSets, TLC

(***************************************************************************)
(* Bounds of the model.                                                    *)
(***************************************************************************)
\* invocations made on one interpreter
MaxInvocations == 2
\* instructions dispatched by Execute within one invocation
MaxSteps == 8
\* length of the byte sequences enumerated as input of the bare reader
MaxLebLen == 2

(***************************************************************************)
(* Program constants.                                                      *)
(***************************************************************************)
PAGE_SIZE == 65536
MaxInt32 == 2147483647
MinInt32 == (-MaxInt32) - 1

errIntegerDivideByZero == "integer divide by zero"
errIntegerOverflow == "integer overflow"
errOutOfBounds == "out of bounds memory access"
errUnreachable == "unreachable"
errLocalNotFound == "local variable not found"
errNoLabelElse == "no label found when else instr"
errNoEnd == "no end instruction found"
errNoElseOrEnd == "no else or end instruction found after instr if"

(***************************************************************************)
(* Go int32 arithmetic (two's complement, wrapping).                       *)
(***************************************************************************)
\* a + b on int32
addInt32(a, b) ==
  IF a > 0 /\ b > 0 /\ a > MaxInt32 - b
    THEN (a - MaxInt32 - 1) + (b - MaxInt32 - 1)
  ELSE IF a < 0 /\ b < 0 /\ a < MinInt32 - b
    THEN (a + MaxInt32 + 1) + (b + MaxInt32 + 1)
  ELSE a + b

\* a / b on int32, b # 0: Go truncates the quotient toward zero
divInt32(a, b) ==
  IF a = MinInt32 /\ b = -1 THEN MinInt32
  ELSE IF (a >= 0 /\ b > 0) \/ (a < 0 /\ b < 0) THEN a \div b
  ELSE IF a < 0 THEN (a + b - 1) \div b
  ELSE (a + b + 1) \div b

(***************************************************************************)
(* encoding/binary, little endian.                                         *)
(***************************************************************************)
RECURSIVE leBytes(_, _)
\* the n low bytes of the two's complement integer v, least significant first
leBytes(v, n) ==
  IF n = 0 THEN <<>> ELSE <<v % 256>> \o leBytes(v \div 256, n - 1)

\* the int32 whose little-endian bytes are d[1..4]
leInt32(d) ==
  (d[1] + 256 * d[2] + 65536 * d[3])
    + 16777216 * (IF d[4] >= 128 THEN d[4] - 256 ELSE d[4])

\* the number of bytes binary.Write emits for a Go type; int is not fixed-size
binarySize(goType) ==
  CASE goType = "uint8" -> 1
    [] goType = "uint16" -> 2
    [] goType \in {"int32", "uint32"} -> 4
    [] goType \in {"int64", "uint64"} -> 8
    [] OTHER -> 0

(***************************************************************************)
(* Value.                                                                  *)
(***************************************************************************)
Value(t, d) == [ValType |-> t, data |-> d]

\* the Go zero Value{}, returned by Pop and Peek on an empty stack
ZeroValue == Value("none", <<>>)

\* ValueFrom(v any, t): binary.Write fails on a value of Go type int and
\* leaves the buffer empty; the error is dropped
ValueFrom(goType, v, t) == Value(t, leBytes(v, binarySize(goType)))

ValueFromI32(v) == Value("I32", leBytes(v, 4))

\* Value.I32: binary.Read fails on a payload shorter than 4 bytes and the
\* result stays 0
I32(v) == IF Len(v.data) < 4 THEN 0 ELSE leInt32(v.data)

(***************************************************************************)
(* stack[T].                                                               *)
(***************************************************************************)
Push(s, v) == Append(s, v)

\* Pop: the value returned, and the stack left
PopVal(s) == IF s = <<>> THEN ZeroValue ELSE s[Len(s)]
PopRest(s) == IF s = <<>> THEN <<>> ELSE SubSeq(s, 1, Len(s) - 1)

\* Get(sp, idx): ok is false when sp+idx is not below the length
GetOk(s, sp, idx) == sp + idx < Len(s)
GetVal(s, sp, idx) == s[sp + idx + 1]

(***************************************************************************)
(* Instruction variants, as the decoder builds them.                       *)
(***************************************************************************)
OpConst(v) == [op |-> "const", val |-> ValueFromI32(v)]
OpLocalGet(k) == [op |-> "local.get", localIdx |-> k]
OpBin(f) == [op |-> "bin", binFn |-> f]
OpRel(f) == [op |-> "rel", relFn |-> f]
OpLoad(f, off) == [op |-> "load", loadFn |-> f, align |-> 0, offset |-> off]
OpStore(f, off) == [op |-> "store", storeFn |-> f, align |-> 0, offset |-> off]
OpMemorySize == [op |-> "memory.size"]
OpMemoryGrow == [op |-> "memory.grow"]
OpMemoryFill == [op |-> "memory.fill"]
OpMemoryCopy == [op |-> "memory.copy"]
OpDrop == [op |-> "drop"]
OpUnreachable == [op |-> "unreachable"]
OpNop == [op |-> "nop"]
OpBlock == [op |-> "block"]
OpLoop == [op |-> "loop"]
OpIf == [op |-> "if"]
OpElse == [op |-> "else"]
OpEnd == [op |-> "end"]
OpReturn == [op |-> "return"]
OpLocalSet(k) == [op |-> "local.set", localIdx |-> k]
OpBr(l) == [op |-> "br", level |-> l]
OpBrIf(l) == [op |-> "br_if", level |-> l]
OpBrTable(t, d) == [op |-> "br_table", labelIdxArr |-> t, defaultIdx |-> d]
OpGlobalGet(i) == [op |-> "global.get", globalIdx |-> i]
OpGlobalSet(i) == [op |-> "global.set", globalIdx |-> i]

(***************************************************************************)
(* The modules under test.  A module is identified by a small record; its  *)
(* functions, exports, memory and data segments are given by the operators *)
(* below.                                                                  *)
(***************************************************************************)
\* the destination of the exported copy function: two bytes below the end
\* of a one-page memory
CopyDst == PAGE_SIZE - 2

\* the value stored by the exported store functions
StoredValue == 1 * 16777216 + 2 * 65536 + 3 * 256 + 4

\* (func (param i32 i32) (result i32) local.get 0 local.get 1 <binFn>)
BinFunc(f) ==
  [nparams |-> 2, nresults |-> 1,
   body |-> <<OpLocalGet(0), OpLocalGet(1), OpBin(f), OpEnd>>]

\* the module of cmd/wasmgo.go and of tests/suite i32: binary operations
ArithFuncs ==
  [add |-> BinFunc("i32Add"), div_s |-> BinFunc("i32DivS")]

\* the operand module: a binary or relational instruction on two constants
OperandFuncs ==
  [sub |-> [nparams |-> 0, nresults |-> 1,
            body |-> <<OpConst(5), OpConst(3), OpBin("i32Sub"), OpEnd>>],
   shl |-> [nparams |-> 0, nresults |-> 1,
            body |-> <<OpConst(1), OpConst(33), OpBin("i32Shl"), OpEnd>>],
   lt_s |-> [nparams |-> 0, nresults |-> 1,
             body |-> <<OpConst(1), OpConst(2), OpRel("i32LtS"), OpEnd>>]]

\* the memory module: loads and stores with static offset off, the load
\* being loadFn; memory.size and memory.grow
MemFuncs(loadFn, off) ==
  [load |-> [nparams |-> 1, nresults |-> 1,
             body |-> <<OpLocalGet(0), OpLoad(loadFn, off), OpEnd>>],
   store |-> [nparams |-> 1, nresults |-> 0,
              body |-> <<OpLocalGet(0), OpConst(StoredValue),
                         OpStore("i32store", off), OpEnd>>],
   st_ld8 |-> [nparams |-> 1, nresults |-> 1,
               body |-> <<OpConst(0), OpConst(StoredValue),
                          OpStore("i32store", 0), OpLocalGet(0),
                          OpLoad("i32load8U", 0), OpEnd>>],
   size |-> [nparams |-> 0, nresults |-> 1,
             body |-> <<OpMemorySize, OpEnd>>],
   grow |-> [nparams |-> 1, nresults |-> 1,
             body |-> <<OpLocalGet(0), OpMemoryGrow, OpEnd>>],
   copy |-> [nparams |-> 1, nresults |-> 0,
             body |-> <<OpConst(CopyDst), OpConst(0), OpLocalGet(0),
                        OpMemoryCopy, OpEnd>>]]

\* the control module: structured control flow and the stub instructions.
\* A body is what parser.expr decodes, which stops at the first End: blk is
\* (block (i32.const 1) (drop)) (i32.const 2), lp is (loop), ifelse is
\* (if (then (i32.const 1)) (else (i32.const 2))), ifonly is
\* (if (then (drop (i32.const 1)))), each cut behind the End of its nested
\* construct
CtlFuncs ==
  [nop |-> [nparams |-> 0, nresults |-> 0, body |-> <<OpNop, OpEnd>>],
   ret |-> [nparams |-> 0, nresults |-> 0, body |-> <<OpReturn, OpEnd>>],
   fill |-> [nparams |-> 0, nresults |-> 0,
             body |-> <<OpConst(0), OpConst(0), OpConst(0),
                        OpMemoryFill, OpEnd>>],
   trap |-> [nparams |-> 0, nresults |-> 0,
             body |-> <<OpUnreachable, OpEnd>>],
   blk |-> [nparams |-> 0, nresults |-> 1,
            body |-> <<OpBlock, OpConst(1), OpDrop, OpEnd>>],
   lp |-> [nparams |-> 0, nresults |-> 0,
           body |-> <<OpLoop, OpEnd>>],
   ifelse |-> [nparams |-> 1, nresults |-> 1,
               body |-> <<OpLocalGet(0), OpIf, OpConst(1), OpElse,
                          OpConst(2), OpEnd>>],
   ifonly |-> [nparams |-> 1, nresults |-> 0,
               body |-> <<OpLocalGet(0), OpIf, OpConst(1), OpDrop, OpEnd>>]]

\* the local module: functions that declare a local behind their parameter
\* and read or write it, or write their parameter
LocalFuncs ==
  [getlocal |-> [nparams |-> 1, nresults |-> 1, nlocals |-> 1,
                 body |-> <<OpLocalGet(1), OpEnd>>],
   onlylocal |-> [nparams |-> 0, nresults |-> 1, nlocals |-> 1,
                  body |-> <<OpLocalGet(0), OpEnd>>],
   setlocal |-> [nparams |-> 1, nresults |-> 1, nlocals |-> 1,
                 body |-> <<OpConst(5), OpLocalSet(1), OpLocalGet(1), OpEnd>>],
   setparam |-> [nparams |-> 1, nresults |-> 1, nlocals |-> 0,
                 body |-> <<OpConst(5), OpLocalSet(0), OpLocalGet(0), OpEnd>>]]

\* the branch module.  parser.instr builds no opBr, opBrIf or opBrTable (their
\* cases are empty), so no binary yields these bodies: they are instruction
\* sequences put together from the instruction variants, whole, with the
\* End of every construct and of the function.
\*   countdown: (loop (local.set 0 (i32.sub (local.get 0) (i32.const 1)))
\*                    (br_if 0 (local.get 0)))
\*   brif:      (block (br_if 0 (local.get 0)) (drop (i32.const 7)))
\*   brtable:   (block (block (br_table 1 0 1 (local.get 0))))
\*   br0:       (block (br 0) (drop (i32.const 1)))
\*   brdeep:    (block (br 1))
\*   brout:     (br 0)
\*   blk2:      (block (drop (i32.const 1))) (i32.const 2)
BrFuncs ==
  [countdown |-> [nparams |-> 1, nresults |-> 0,
                  body |-> <<OpLoop, OpLocalGet(0), OpConst(1),
                             OpBin("i32Sub"), OpLocalSet(0), OpLocalGet(0),
                             OpBrIf(0), OpEnd, OpEnd>>],
   brif |-> [nparams |-> 1, nresults |-> 0,
             body |-> <<OpBlock, OpLocalGet(0), OpBrIf(0), OpConst(7), OpDrop,
                        OpEnd, OpEnd>>],
   brtable |-> [nparams |-> 1, nresults |-> 0,
                body |-> <<OpBlock, OpBlock, OpLocalGet(0),
                           OpBrTable(<<1, 0>>, 1), OpEnd, OpEnd, OpEnd>>],
   br0 |-> [nparams |-> 0, nresults |-> 0,
            body |-> <<OpBlock, OpBr(0), OpConst(1), OpDrop, OpEnd, OpEnd>>],
   brdeep |-> [nparams |-> 0, nresults |-> 0,
               body |-> <<OpBlock, OpBr(1), OpEnd, OpEnd>>],
   brout |-> [nparams |-> 0, nresults |-> 0, body |-> <<OpBr(0), OpEnd>>],
   blk2 |-> [nparams |-> 0, nresults |-> 1,
             body |-> <<OpBlock, OpConst(1), OpDrop, OpEnd, OpConst(2),
                        OpEnd>>]]

\* the global module, its bodies put together as those of the branch module
\* are (parser.instr builds no opGlobalGet and no opGlobalSet): set<i> is
\* (global.set i (i32.const 5)) (global.get i), set64 gives global 0 an
\* i64, get is (global.get 0)
GlobalFuncs ==
  [set0 |-> [nparams |-> 0, nresults |-> 1,
             body |-> <<OpConst(5), OpGlobalSet(0), OpGlobalGet(0), OpEnd>>],
   set1 |-> [nparams |-> 0, nresults |-> 1,
             body |-> <<OpConst(5), OpGlobalSet(1), OpGlobalGet(1), OpEnd>>],
   set2 |-> [nparams |-> 0, nresults |-> 1,
             body |-> <<OpConst(5), OpGlobalSet(2), OpGlobalGet(2), OpEnd>>],
   set64 |-> [nparams |-> 1, nresults |-> 1,
              body |-> <<OpLocalGet(0), OpGlobalSet(0), OpGlobalGet(0),
                         OpEnd>>],
   setnone |-> [nparams |-> 0, nresults |-> 0,
                body |-> <<OpGlobalSet(0), OpEnd>>],
   get |-> [nparams |-> 0, nresults |-> 1,
            body |-> <<OpGlobalGet(0), OpEnd>>]]

LoadFns == {"i32load", "i64load", "i32load8U", "i32load16U"}
Offsets == {0, 4, -1, MaxInt32}

Modules ==
  {[kind |-> "arith"], [kind |-> "ctl"], [kind |-> "local"], [kind |-> "br"],
   [kind |-> "global"], [kind |-> "operand"]}
    \cup {[kind |-> "mem", loadFn |-> f, offset |-> 0] : f \in LoadFns}
    \cup {[kind |-> "mem", loadFn |-> "i32load", offset |-> o] : o \in Offsets}

Funcs(m) ==
  CASE m.kind = "arith" -> ArithFuncs
    [] m.kind = "ctl" -> CtlFuncs
    [] m.kind = "local" -> LocalFuncs
    [] m.kind = "br" -> BrFuncs
    [] m.kind = "global" -> GlobalFuncs
    [] m.kind = "operand" -> OperandFuncs
    [] m.kind = "mem" -> MemFuncs(m.loadFn, m.offset)

\* the value type bytes of the binary format, and type_ I32 and I64
BinaryI32 == 127
TypeI32 == 112
TypeI64 == 111
const_ == 0
var_ == 1

\* the type_ of a Value of the model
TypeTag(t) ==
  CASE t = "I32" -> TypeI32
    [] t = "I64" -> TypeI64
    [] OTHER -> 0

\* the globals a module declares: a mutable one whose value type is the
\* byte 0x70 (type_ I32), an immutable one, and a mutable one whose value
\* type is 0x7F, the i32 of the binary format
ModuleGlobals(m) ==
  IF m.kind = "global"
    THEN <<[type_ |-> [valueType |-> TypeI32, mut |-> var_],
            initExpr |-> <<OpConst(10), OpEnd>>],
           [type_ |-> [valueType |-> TypeI32, mut |-> const_],
            initExpr |-> <<OpConst(11), OpEnd>>],
           [type_ |-> [valueType |-> BinaryI32, mut |-> var_],
            initExpr |-> <<OpConst(12), OpEnd>>]>>
    ELSE <<>>

\* the memories a module declares: limits, Max = -1 when there is none
ModuleMems(m) ==
  IF m.kind = "mem" THEN <<[limits |-> [Min |-> 1, Max |-> 3]]>> ELSE <<>>

\* the data segments a module declares
ModuleDatas(m) ==
  IF m.kind = "mem"
    THEN <<[memIdx |-> 0, offset |-> 0,
            init |-> <<120, 86, 52, 18, 239, 205, 171, 137>>]>>
    ELSE <<>>

\* the arguments the harness invokes an export with
I32Dividends == {MinInt32, -7, 1}
I32Divisors == {-1, 0, 1, 2}
Bases == {-1, 0, 65533, 65536, MaxInt32 - 3, MaxInt32}

ArgSets(m, f) ==
  CASE m.kind = "arith" ->
         {<<ValueFromI32(a), ValueFromI32(b)>> :
            a \in I32Dividends, b \in I32Divisors}
    [] m.kind = "mem" /\ f = "load" -> {<<ValueFromI32(a)>> : a \in Bases}
    [] m.kind = "mem" /\ f = "store" ->
         {<<ValueFromI32(a)>> : a \in {-1, 0, 65536}}
    [] m.kind = "mem" /\ f = "st_ld8" -> {<<ValueFromI32(k)>> : k \in {0, 3}}
    [] m.kind = "mem" /\ f = "grow" -> {<<ValueFromI32(n)>> : n \in {0, 2, 3}}
    [] m.kind = "mem" /\ f = "copy" ->
         {<<ValueFromI32(n)>> : n \in {-1, 1, 4, PAGE_SIZE + 1}}
    [] m.kind = "ctl" /\ f \in {"ifelse", "ifonly"} ->
         {<<ValueFromI32(c)>> : c \in {0, 1}}
    [] m.kind = "local" /\ f # "onlylocal" -> {<<ValueFromI32(3)>>}
    [] m.kind = "br" /\ f = "countdown" -> {<<ValueFromI32(n)>> : n \in {1, 2}}
    [] m.kind = "br" /\ f = "brif" -> {<<ValueFromI32(c)>> : c \in {0, 1}}
    [] m.kind = "br" /\ f = "brtable" ->
         {<<ValueFromI32(i)>> : i \in {0, 1, 2, 5, -1, MinInt32}}
    [] m.kind = "global" /\ f = "set64" -> {<<Value("I64", leBytes(6, 8))>>}
    [] OTHER -> {<<>>}

(***************************************************************************)
(* memInst.  The backing slice is its length and the bytes that differ     *)
(* from zero.                                                              *)
(***************************************************************************)
ByteAt(d, i) == IF i \in DOMAIN d.set THEN d.set[i] ELSE 0

\* make([]byte, n)
MakeBytes(n) == [len |-> n, set |-> <<>>]

\* copy(d[offset:], init), for a range inside d
CopyInto(d, offset, init) ==
  [len |-> d.len,
   set |-> [i \in (DOMAIN d.set \cup (offset .. offset + Len(init) - 1)) \
                    {j \in offset .. offset + Len(init) - 1 :
                       init[j - offset + 1] = 0} |->
              IF i >= offset /\ i < offset + Len(init)
                THEN init[i - offset + 1] ELSE d.set[i]]]

\* the n bytes of d from addr on
ReadBytes(d, addr, n) == [k \in 1 .. n |-> ByteAt(d, addr + k - 1)]

size(m) == m.data.len
pages(m) == size(m) \div PAGE_SIZE

\* memInst.grow(n) on the receiver m: the memInst with its data replaced,
\* err when the declared maximum would be passed, panic when make is given
\* a negative length
grow(m, n) ==
  LET toPages == pages(m) + n IN
  IF m.memType.limits.Max >= 0 /\ toPages > m.memType.limits.Max
    THEN [mem |-> m, err |-> "memory page is overflow", panic |-> FALSE]
  ELSE IF toPages < 0
    THEN [mem |-> m, err |-> "nil", panic |-> TRUE]
  ELSE [mem |-> [m EXCEPT !.data =
                   [len |-> toPages * PAGE_SIZE, set |-> m.data.set]],
        err |-> "nil", panic |-> FALSE]

\* memInst.load8/16/32/64: the bounds check adds the width in int32; the
\* slice expression m.data[addr:] panics when addr is above the length
loadN(m, addr, w) ==
  IF addr < 0 \/ addInt32(addr, w) > size(m)
    THEN [bytes |-> leBytes(0, w), err |-> errOutOfBounds, panic |-> FALSE]
  ELSE IF addr > size(m)
    THEN [bytes |-> leBytes(0, w), err |-> "nil", panic |-> TRUE]
  ELSE [bytes |-> ReadBytes(m.data, addr, w), err |-> "nil", panic |-> FALSE]

\* the loadFn of an opLoad: the Value built from the bytes read
loadWidth(f) ==
  CASE f = "i32load" -> 4
    [] f = "i64load" -> 8
    [] f = "i32load8U" -> 1
    [] f = "i32load16U" -> 2

loadFn(f, m, addr) ==
  LET r == loadN(m, addr, loadWidth(f)) IN
  [val |-> CASE f = "i32load" -> Value("I32", r.bytes)
             [] f = "i64load" -> Value("I64", r.bytes)
             [] f = "i32load8U" -> Value("I32", r.bytes \o <<0, 0, 0>>)
             [] f = "i32load16U" -> Value("I32", r.bytes \o <<0, 0>>),
   err |-> r.err, panic |-> r.panic]

\* memInst.store32: binary.Write goes to a bytes.Buffer that starts full
\* (bytes.NewBuffer(m.data[addr:]) has no spare capacity), so the bytes are
\* appended to a fresh array and m.data keeps its contents
store32(m, addr, v) ==
  IF addr < 0 \/ addInt32(addr, 4) > size(m)
    THEN [data |-> m.data, err |-> errOutOfBounds, panic |-> FALSE]
  ELSE IF addr > size(m)
    THEN [data |-> m.data, err |-> "nil", panic |-> TRUE]
  ELSE [data |-> m.data, err |-> "nil", panic |-> FALSE]

\* i32store: the error store32 returns is not passed on
i32store(m, addr, v) ==
  LET r == store32(m, addr, I32(v)) IN [data |-> r.data, panic |-> r.panic]

(***************************************************************************)
(* Binary numeric functions.                                               *)
(***************************************************************************)
\* mutant of i32Add: the sum is handed to ValueFrom as a Go int
i32AddFromInt(a, b) ==
  [val |-> ValueFrom("int", addInt32(I32(a), I32(b)), "I32"), err |-> "nil"]

i32Add(a, b) ==
  [val |-> ValueFrom("int32", addInt32(I32(a), I32(b)), "I32"), err |-> "nil"]

i32DivS(a, b) ==
  IF I32(b) = 0 THEN [val |-> ZeroValue, err |-> errIntegerDivideByZero]
  ELSE IF I32(a) = MinInt32 /\ I32(b) = -1
    THEN [val |-> ZeroValue, err |-> errIntegerOverflow]
  ELSE [val |-> ValueFrom("int32", divInt32(I32(a), I32(b)), "I32"),
        err |-> "nil"]

(***************************************************************************)
(* Matching end and else.                                                  *)
(***************************************************************************)
RECURSIVE nextEndAddrFrom(_, _, _)
\* the scan of nextEndAddr with its depth; among the openers only block
\* raises the depth (the cases for if and loop are empty)
nextEndAddrFrom(pc, insts, depth) ==
  IF pc >= Len(insts) THEN -1
  ELSE IF insts[pc + 1].op = "block"
    THEN nextEndAddrFrom(pc + 1, insts, depth + 1)
  ELSE IF insts[pc + 1].op = "end"
    THEN (IF depth = 0 THEN pc ELSE nextEndAddrFrom(pc + 1, insts, depth - 1))
  ELSE nextEndAddrFrom(pc + 1, insts, depth)

\* mutant of nextEndAddr: the index one past the end found
nextEndAddrPast(pc, insts) == nextEndAddrFrom(pc, insts, 0) + 1

nextEndAddr(pc, insts) == nextEndAddrFrom(pc, insts, 0)

RECURSIVE nextElseOrEndAddrFrom(_, _, _)
\* the scan of nextElseOrEndAddr; only if raises the depth
nextElseOrEndAddrFrom(pc, insts, depth) ==
  IF pc >= Len(insts) THEN -1
  ELSE IF insts[pc + 1].op = "if"
    THEN nextElseOrEndAddrFrom(pc + 1, insts, depth + 1)
  ELSE IF insts[pc + 1].op = "else" /\ depth = 0 THEN pc
  ELSE IF insts[pc + 1].op = "end"
    THEN (IF depth = 0 THEN pc
          ELSE nextElseOrEndAddrFrom(pc + 1, insts, depth - 1))
  ELSE nextElseOrEndAddrFrom(pc + 1, insts, depth)

nextElseOrEndAddr(pc, insts) == nextElseOrEndAddrFrom(pc, insts, 0)

\* Value.Bool: defined for the integer types only
BoolPanics(v) == v.ValType \notin {"I32", "I64"}
Bool(v) ==
  IF v.ValType = "I32" THEN I32(v) # 0
  ELSE Len(v.data) >= 8 /\ \E k \in 1 .. 8 : v.data[k] # 0

(***************************************************************************)
(* leb128Reader.  A reader is [bytes, pos]; every eat operator returns the  *)
(* reader it leaves ("r"), the value read ("v") and the error ("err").  A   *)
(* uint64 or int64 is the set of the positions of its 1 bits, 0 .. 63.     *)
(***************************************************************************)
errEOF == "EOF"

Bit(u8, i) == (u8 \div (2 ^ i)) % 2 = 1

\* the 64-bit pattern of an integer of at most 31 bits
BitsOfNat(n) == {i \in 0 .. 30 : Bit(n, i)}
BitsOfInt(z) ==
  IF z >= 0 THEN BitsOfNat(z) ELSE (0 .. 63) \ BitsOfNat(-(z + 1))

\* the integer a set of bit positions below 31 stands for
RECURSIVE BitsValue(_)
BitsValue(bits) ==
  IF bits = {} THEN 0
  ELSE LET i == CHOOSE j \in bits : TRUE IN 2 ^ i + BitsValue(bits \ {i})

\* uint32(v) of a 64-bit pattern, for values below 2^31
Uint32(bits) == BitsValue(bits \cap (0 .. 31))

\* int32(v) of a 64-bit pattern: the low 32 bits in two's complement
Int32(bits) ==
  BitsValue(bits \cap (0 .. 30)) + (IF 31 \in bits THEN MinInt32 ELSE 0)

eatBytes(rd, length) ==
  IF rd.pos + length > Len(rd.bytes)
    THEN [r |-> rd, v |-> <<>>, err |-> errEOF]
    ELSE [r |-> [rd EXCEPT !.pos = @ + length],
          v |-> SubSeq(rd.bytes, rd.pos + 1, rd.pos + length),
          err |-> "nil"]

eatU8(rd) ==
  IF rd.pos >= Len(rd.bytes)
    THEN [r |-> rd, v |-> 0, err |-> errEOF]
    ELSE [r |-> [rd EXCEPT !.pos = @ + 1], v |-> rd.bytes[rd.pos + 1],
          err |-> "nil"]

\* (uint64(u8) & 0x7F) << shift: a shift moves bits past bit 63 out
Group(u8, shift) == {shift + i : i \in {j \in 0 .. 6 : Bit(u8, j)}} \cap (0 .. 63)

\* mutant of SignFill: every bit is filled
SignFillAll(shift) == 0 .. 63

\* ^0 << shift on int64: the bits from shift up, none when shift >= 64
SignFill(shift) == shift .. 63

\* the loop shared by eatU64 and eatI64; signed tells which of the two
RECURSIVE eatLoop(_, _, _, _)
eatLoop(rd, v, shift, signed) ==
  LET b == eatU8(rd) IN
  IF b.err # "nil" THEN [r |-> b.r, v |-> {}, err |-> b.err]
  ELSE LET w == v \cup Group(b.v, shift) IN
       IF ~Bit(b.v, 7)
         THEN [r |-> b.r,
               v |-> IF signed /\ Bit(b.v, 6)
                       THEN w \cup SignFill(shift + 7) ELSE w,
               err |-> "nil"]
         ELSE eatLoop(b.r, w, shift + 7, signed)

eatI64(rd) == eatLoop(rd, {}, 0, TRUE)

\* mutant of eatU64: the terminating byte is sign-extended
eatU64Signed(rd) == eatI64(rd)

eatU64(rd) == eatLoop(rd, {}, 0, FALSE)

eatI32(rd) == LET e == eatI64(rd) IN [e EXCEPT !.v = Int32(@)]

eatU32(rd) == LET e == eatU64(rd) IN [e EXCEPT !.v = Uint32(@)]

\* ValueFromI64: the eight little-endian bytes of a 64-bit pattern
ValueFromI64(bits) ==
  Value("I64", [k \in 1 .. 8 |->
                  BitsValue({i - 8 * (k - 1) :
                               i \in bits \cap (8 * (k - 1) .. 8 * k - 1)})])

(***************************************************************************)
(* The integer functions of opBin that work on bit patterns.  An int32 is  *)
(* taken to its pattern with Bits32 or BitsOfInt (sign-extended to 64      *)
(* bits) and back with Int32; an int64 stays a pattern.                    *)
(***************************************************************************)
\* the 32-bit pattern of an int32
Bits32(z) == BitsOfInt(z) \cap (0 .. 31)

\* Value.I64: binary.Read fails on a payload shorter than 8 bytes and the
\* result stays 0
I64(v) ==
  IF Len(v.data) < 8 THEN {}
  ELSE {i \in 0 .. 63 : Bit(v.data[(i \div 8) + 1], i % 8)}

\* x << s and x >> s on a pattern of n bits, x unsigned
ShiftLeft(x, s, n) == {i + s : i \in x} \cap (0 .. n - 1)
ShiftRight(x, s) == {i - s : i \in {j \in x : j >= s}}

\* x >> s on a signed pattern of n bits: the sign bit fills from the top
ShiftRightSigned(x, s, n) ==
  ShiftRight(x, s) \cup (IF n - 1 \in x THEN (n - s) .. (n - 1) ELSE {})

\* uint32(b.I32()) % 32 and uint(int(b.I32())) & 31
Count32(b) == I32(b) % 32
\* uint64(b.I64()) % 64 and uint(int(b.I64())) & 63
Count64(b) == BitsValue(I64(b) \cap (0 .. 5))

\* a - b on int32
subInt32(a, b) ==
  IF b = MinInt32 THEN addInt32(addInt32(a, MaxInt32), 1)
  ELSE addInt32(a, -b)

\* a * b on int32: the four low bytes of the product of the operands' bytes
mulInt32(a, b) ==
  LET x == leBytes(a, 4)
      y == leBytes(b, 4)
      c0 == x[1] * y[1]
      c1 == x[1] * y[2] + x[2] * y[1] + c0 \div 256
      c2 == x[1] * y[3] + x[2] * y[2] + x[3] * y[1] + c1 \div 256
      c3 == x[1] * y[4] + x[2] * y[3] + x[3] * y[2] + x[4] * y[1]
              + c2 \div 256
  IN leInt32(<<c0 % 256, c1 % 256, c2 % 256, c3 % 256>>)

\* mutant of remInt32: the remainder is never negative
remInt32Floored(a, b) ==
  IF b = MinInt32 THEN (IF a = MinInt32 THEN 0 ELSE a)
  ELSE a % (IF b < 0 THEN -b ELSE b)

\* a % b on int32, b # 0: the remainder has the sign of a and is smaller
\* than b in magnitude; MinInt32 % -1 is 0 and does not panic
remInt32(a, b) ==
  IF b = MinInt32 THEN (IF a = MinInt32 THEN 0 ELSE a)
  ELSE LET m == IF b < 0 THEN -b ELSE b
           r == a % m
       IN IF a < 0 /\ r # 0 THEN r - m ELSE r

i32Sub(a, b) ==
  [val |-> ValueFrom("int32", subInt32(I32(a), I32(b)), "I32"), err |-> "nil"]

i32Mul(a, b) ==
  [val |-> ValueFrom("int32", mulInt32(I32(a), I32(b)), "I32"), err |-> "nil"]

i32RemS(a, b) ==
  IF I32(b) = 0 THEN [val |-> ZeroValue, err |-> errIntegerDivideByZero]
  ELSE [val |-> ValueFrom("int32", remInt32(I32(a), I32(b)), "I32"),
        err |-> "nil"]

\* mutant of i32Shl: the count is used as it is, and a shift by 32 or more
\* moves every bit out
i32ShlUnmasked(a, b) ==
  [val |-> ValueFrom("int32",
                     IF I32(b) < 0 \/ I32(b) > 31 THEN 0
                     ELSE Int32(ShiftLeft(Bits32(I32(a)), I32(b), 32)),
                     "I32"),
   err |-> "nil"]

i32Shl(a, b) ==
  [val |-> ValueFrom("int32",
                     Int32(ShiftLeft(Bits32(I32(a)), Count32(b), 32)), "I32"),
   err |-> "nil"]

i32ShrS(a, b) ==
  [val |-> ValueFrom("int32",
                     Int32(ShiftRightSigned(Bits32(I32(a)), Count32(b), 32)),
                     "I32"),
   err |-> "nil"]

\* the uint32 result is written as the int32 of the same four bytes
i32ShrU(a, b) ==
  [val |-> ValueFrom("uint32",
                     Int32(ShiftRight(Bits32(I32(a)), Count32(b))), "I32"),
   err |-> "nil"]

\* bits.RotateLeft32(x, k): x<<s | x>>(32-s) with s = uint(k) & 31
i32RotL(a, b) ==
  [val |-> ValueFrom("uint32",
                     Int32(ShiftLeft(Bits32(I32(a)), Count32(b), 32)
                             \cup ShiftRight(Bits32(I32(a)),
                                             32 - Count32(b))),
                     "I32"),
   err |-> "nil"]

\* rotateRight32(x, k): x>>s | x<<(32-s) with s = uint(k) & 31
rotateRight32(x, k) ==
  ShiftRight(x, k % 32) \cup ShiftLeft(x, 32 - (k % 32), 32)

i32RotR(a, b) ==
  [val |-> ValueFrom("uint32", Int32(rotateRight32(Bits32(I32(a)), I32(b))),
                     "I32"),
   err |-> "nil"]

i64Shl(a, b) ==
  [val |-> ValueFromI64(ShiftLeft(I64(a), Count64(b), 64)), err |-> "nil"]

i64ShrS(a, b) ==
  [val |-> ValueFromI64(ShiftRightSigned(I64(a), Count64(b), 64)),
   err |-> "nil"]

i64ShrU(a, b) ==
  [val |-> ValueFromI64(ShiftRight(I64(a), Count64(b))), err |-> "nil"]

\* bits.RotateLeft64(x, k): x<<s | x>>(64-s) with s = uint(k) & 63
i64RotL(a, b) ==
  [val |-> ValueFromI64(ShiftLeft(I64(a), Count64(b), 64)
                          \cup ShiftRight(I64(a), 64 - Count64(b))),
   err |-> "nil"]

\* rotateRight64(x, k), k being the pattern of the count
rotateRight64(x, k) ==
  ShiftRight(x, BitsValue(k \cap (0 .. 5)))
    \cup ShiftLeft(x, 64 - BitsValue(k \cap (0 .. 5)), 64)

i64RotR(a, b) ==
  [val |-> ValueFromI64(rotateRight64(I64(a), I64(b))), err |-> "nil"]

\* the binFn of an opBin, by the name of the function
binFn(f, a, b) ==
  CASE f = "i32Add" -> i32Add(a, b)
    [] f = "i32Sub" -> i32Sub(a, b)
    [] f = "i32Mul" -> i32Mul(a, b)
    [] f = "i32DivS" -> i32DivS(a, b)
    [] f = "i32RemS" -> i32RemS(a, b)
    [] f = "i32Shl" -> i32Shl(a, b)
    [] f = "i32ShrS" -> i32ShrS(a, b)
    [] f = "i32ShrU" -> i32ShrU(a, b)
    [] f = "i32RotL" -> i32RotL(a, b)
    [] f = "i32RotR" -> i32RotR(a, b)
    [] f = "i64Shl" -> i64Shl(a, b)
    [] f = "i64ShrS" -> i64ShrS(a, b)
    [] f = "i64ShrU" -> i64ShrU(a, b)
    [] f = "i64RotL" -> i64RotL(a, b)
    [] f = "i64RotR" -> i64RotR(a, b)

\* numericBool: 1 for true and 0 for false, as an i32
numericBool(b) == ValueFrom("int32", IF b THEN 1 ELSE 0, "I32")

i32LtS(a, b) == I32(a) < I32(b)

\* the relFn of an opRel, by the name of the function
relFn(f, a, b) == CASE f = "i32LtS" -> i32LtS(a, b)

(***************************************************************************)
(* parser.  Each decoding function is an operator from the reader to the   *)
(* reader it leaves, the value decoded and the error.  When the error is   *)
(* not nil the value is what had been decoded so far; no caller reads it.  *)
(***************************************************************************)
errInvalidWASMBinary == "invalid wasm binary magic"
errInvalidFuncType == "invalid func type"
errFuncCountMismatch == "function count mismatch"
errUnknownCopyOrFill == "unknown memory copy or fill kind"

\* the magic word 0x6d736100
WASM_MAGIC == 1836278016

\* a little-endian uint32 as the set of its 1 bits
LittleEndian(bs) ==
  {j \in 0 .. 31 : j \div 8 < Len(bs) /\ Bit(bs[(j \div 8) + 1], j % 8)}

CustomSection == 0
TypeSection == 1
ImportSection == 2
FunctionSection == 3
TableSection == 4
MemorySection == 5
GlobalSection == 6
ExportSection == 7
StartSection == 8
ElementSection == 9
CodeSection == 10
DataSection == 11

Ok(rd, v) == [r |-> rd, v |-> v, err |-> "nil"]
Fail(rd, v, err) == [r |-> rd, v |-> v, err |-> err]

\* F(e), with e evaluated once and named by the parameter of F
Bind(e, F(_)) == CHOOSE y \in {F(x) : x \in {e}} : TRUE

\* a loop of count turns, each reading one entry: the entries read are
\* appended to acc.  made tells that the slice was made with count entries
\* before the loop, so that what a failing turn wrote to its entry stays in
\* the slice returned (the zero entries behind it are left out); with
\* append, the entry of a failing turn is not in the slice
RECURSIVE loop(_, _, _, _, _)
loop(entry(_), made, rd, count, acc) ==
  IF count = 0 THEN Ok(rd, acc)
  ELSE Bind(entry(rd), LAMBDA e :
       IF e.err # "nil"
         THEN Fail(e.r, IF made THEN Append(acc, e.v) ELSE acc, e.err)
         ELSE loop(entry, made, e.r, count - 1, Append(acc, e.v)))

\* a count and that many entries, in a slice made before the loop
vec(entry(_), rd) ==
  Bind(eatU32(rd), LAMBDA count :
  IF count.err # "nil" THEN Fail(count.r, <<>>, count.err)
  ELSE loop(entry, TRUE, count.r, count.v, <<>>))

\* header: two little-endian words of four bytes
header(rd) ==
  Bind(eatBytes(rd, 4), LAMBDA magicBytes :
  IF magicBytes.err # "nil"
    THEN Fail(magicBytes.r, [magic |-> {}, version |-> {}], magicBytes.err)
  ELSE Bind(eatBytes(magicBytes.r, 4), LAMBDA versionBytes :
  IF versionBytes.err # "nil"
    THEN Fail(versionBytes.r,
              [magic |-> LittleEndian(magicBytes.v), version |-> {}],
              versionBytes.err)
    ELSE Ok(versionBytes.r,
            [magic |-> LittleEndian(magicBytes.v),
             version |-> LittleEndian(versionBytes.v)])))

\* sectionHeader: the id byte, then the length
sectionHeader(rd) ==
  Bind(eatU8(rd), LAMBDA sidU8 :
  IF sidU8.err # "nil"
    THEN Fail(sidU8.r, [sid |-> sidU8.v, length |-> 0], sidU8.err)
  ELSE Bind(eatU32(sidU8.r), LAMBDA length :
       [r |-> length.r, v |-> [sid |-> sidU8.v, length |-> length.v],
        err |-> length.err]))

name(rd) ==
  Bind(eatU32(rd), LAMBDA length :
  IF length.err # "nil" THEN Fail(length.r, <<>>, length.err)
  ELSE eatBytes(length.r, length.v))

\* customSection: the data is length - (len(name) + 4) bytes, computed in
\* uint32; below zero it wraps to more bytes than any input has
customSection(rd, length) ==
  Bind(name(rd), LAMBDA n :
  IF n.err # "nil" THEN Fail(n.r, [name |-> n.v, data |-> <<>>], n.err)
  ELSE IF length < Len(n.v) + 4
    THEN Fail(n.r, [name |-> n.v, data |-> <<>>], errEOF)
  ELSE Bind(eatBytes(n.r, length - (Len(n.v) + 4)), LAMBDA d :
       [r |-> d.r, v |-> [name |-> n.v, data |-> d.v], err |-> d.err]))

NoFuncType == [params |-> <<>>, results |-> <<>>]

\* one entry of the type section
funcTypeEntry(rd) ==
  Bind(eatU8(rd), LAMBDA ft :
  IF ft.err # "nil" THEN Fail(ft.r, NoFuncType, ft.err)
  ELSE IF ft.v # 96 THEN Fail(ft.r, NoFuncType, errInvalidFuncType)
  ELSE Bind(eatU32(ft.r), LAMBDA paramsCount :
  IF paramsCount.err # "nil"
    THEN Fail(paramsCount.r, NoFuncType, paramsCount.err)
  ELSE Bind(loop(eatU8, FALSE, paramsCount.r, paramsCount.v, <<>>), LAMBDA params :
  IF params.err # "nil"
    THEN Fail(params.r, [NoFuncType EXCEPT !.params = params.v], params.err)
  ELSE Bind(eatU32(params.r), LAMBDA resultsCount :
  IF resultsCount.err # "nil"
    THEN Fail(resultsCount.r, [NoFuncType EXCEPT !.params = params.v],
              resultsCount.err)
  ELSE Bind(loop(eatU8, FALSE, resultsCount.r, resultsCount.v, <<>>),
            LAMBDA results :
       [r |-> results.r,
        v |-> [params |-> params.v, results |-> results.v],
        err |-> results.err])))))

typeSection(rd) == vec(funcTypeEntry, rd)

\* one entry of the function section: the type index of a function whose
\* locals and body the code section fills in
funcEntry(rd) ==
  Bind(eatU32(rd), LAMBDA idx :
       [idx EXCEPT !.v = [typeIdx |-> idx.v, locals |-> <<>>, body |-> <<>>]])

funcSection(rd) == vec(funcEntry, rd)

NoLimits == [Min |-> 0, Max |-> 0]

\* limits: a flag, the minimum and, unless the flag is 0, the maximum,
\* which is converted to int32; Max = -1 stands for no maximum
limits(rd) ==
  Bind(eatU32(rd), LAMBDA flag :
  IF flag.err # "nil" THEN Fail(flag.r, NoLimits, flag.err)
  ELSE Bind(eatU32(flag.r), LAMBDA min :
  IF min.err # "nil" THEN Fail(min.r, NoLimits, min.err)
  ELSE IF flag.v = 0 THEN Ok(min.r, [Min |-> min.v, Max |-> -1])
  ELSE Bind(eatU64(min.r), LAMBDA max :
       IF max.err # "nil"
         THEN Fail(max.r, [NoLimits EXCEPT !.Min = min.v], max.err)
         ELSE Ok(max.r, [Min |-> min.v, Max |-> Int32(max.v)]))))

memory(rd) ==
  Bind(limits(rd), LAMBDA l : [l EXCEPT !.v = [limits |-> l.v]])

table(rd) ==
  Bind(eatU8(rd), LAMBDA elemType :
  IF elemType.err # "nil"
    THEN Fail(elemType.r, [elemType |-> 0, limits |-> NoLimits], elemType.err)
  ELSE Bind(limits(elemType.r), LAMBDA l :
       [r |-> l.r, v |-> [elemType |-> elemType.v, limits |-> l.v],
        err |-> l.err]))

tableSection(rd) == vec(table, rd)

memorySection(rd) == vec(memory, rd)

globalType(rd) ==
  Bind(eatU8(rd), LAMBDA valueType :
  IF valueType.err # "nil"
    THEN Fail(valueType.r, [valueType |-> 0, mut |-> 0], valueType.err)
  ELSE Bind(eatU8(valueType.r), LAMBDA mut :
       [r |-> mut.r, v |-> [valueType |-> valueType.v, mut |-> mut.v],
        err |-> mut.err]))

startSection(rd) ==
  Bind(eatU32(rd), LAMBDA e : [e EXCEPT !.v = [funcIdx |-> e.v]])

NoExport == [name |-> <<>>, kind |-> 0, idx |-> 0]

exportEntry(rd) ==
  Bind(name(rd), LAMBDA n :
  IF n.err # "nil" THEN Fail(n.r, NoExport, n.err)
  ELSE Bind(eatU8(n.r), LAMBDA kind :
  IF kind.err # "nil"
    THEN Fail(kind.r, [NoExport EXCEPT !.name = n.v], kind.err)
  ELSE Bind(eatU32(kind.r), LAMBDA idx :
  IF idx.err # "nil"
    THEN Fail(idx.r, [name |-> n.v, kind |-> kind.v, idx |-> 0], idx.err)
    ELSE Ok(idx.r, [name |-> n.v, kind |-> kind.v, idx |-> idx.v]))))

exportSection(rd) == vec(exportEntry, rd)

(***************************************************************************)
(* parser.instr and parser.expr.                                           *)
(***************************************************************************)
\* what instr returns for an opcode whose case has no statement, and for a
\* byte that is no case of the switch: a nil instr and no error
NilInstr == [op |-> "nil"]

\* the opcodes whose case builds an instruction of no immediate
SimpleOpcodes ==
  {0, 1, 5, 15, 26, 27, 63, 64} \cup (69 .. 166) \cup (192 .. 196)

\* the opcodes whose case is empty: br, br_if, br_table, call,
\* call_indirect, local.tee, global.get, global.set, f32.const, f64.const
\* and the conversions 0xA7 .. 0xBF
EmptyCaseOpcodes ==
  {12, 13, 14, 16, 17, 34, 35, 36, 67, 68} \cup (167 .. 191)

\* the load and store functions of the opcodes 0x28 .. 0x3E, in order
memFns ==
  <<"i32load", "i64load", "f32load", "f64load", "i32load8S", "i32load8U",
    "i32load16S", "i32load16U", "i64Load8S", "i64Load8U", "i64load16S",
    "i64load16U", "i64load32S", "i64load32U", "i32store", "i64store",
    "f32store", "f64store", "i32store8", "i32store16", "i64store8",
    "i64store16", "i64store32">>

\* the instruction a case of no immediate builds
SimpleInstr(op) ==
  CASE op = 0 -> OpUnreachable
    [] op = 1 -> OpNop
    [] op = 5 -> OpElse
    [] op = 15 -> OpReturn
    [] op = 26 -> OpDrop
    [] op = 63 -> OpMemorySize
    [] op = 64 -> OpMemoryGrow
    [] op = 72 -> OpRel("i32LtS")
    [] op = 106 -> OpBin("i32Add")
    [] op = 107 -> OpBin("i32Sub")
    [] op = 108 -> OpBin("i32Mul")
    [] op = 109 -> OpBin("i32DivS")
    [] op = 111 -> OpBin("i32RemS")
    [] op = 116 -> OpBin("i32Shl")
    [] op = 117 -> OpBin("i32ShrS")
    [] op = 118 -> OpBin("i32ShrU")
    [] op = 119 -> OpBin("i32RotL")
    [] op = 120 -> OpBin("i32RotR")
    [] op = 134 -> OpBin("i64Shl")
    [] op = 135 -> OpBin("i64ShrS")
    [] op = 136 -> OpBin("i64ShrU")
    [] op = 137 -> OpBin("i64RotL")
    [] op = 138 -> OpBin("i64RotR")
    [] OTHER -> [op |-> "numeric", opcode |-> op]

\* eatBlock: one byte of block type; no exec reads the block it makes, and
\* the instructions of the model leave it out
eatBlock(rd) == eatU8(rd)

memoryArgs(rd) ==
  Bind(eatI32(rd), LAMBDA align :
  IF align.err # "nil"
    THEN Fail(align.r, [align |-> align.v, offset |-> 0], align.err)
  ELSE Bind(eatI32(align.r), LAMBDA offset :
       [r |-> offset.r, v |-> [align |-> align.v, offset |-> offset.v],
        err |-> offset.err]))

\* memory.copy and memory.fill: the kind byte, then the memory indices,
\* read without a look at the error
memoryCopyOrFill(rd) ==
  Bind(eatU8(rd), LAMBDA kind :
  IF kind.err # "nil" THEN Fail(kind.r, NilInstr, kind.err)
  ELSE IF kind.v = 10 THEN Ok(eatU32(eatU32(kind.r).r).r, OpMemoryCopy)
  ELSE IF kind.v = 11 THEN Ok(eatU32(kind.r).r, OpMemoryFill)
  ELSE Fail(kind.r, NilInstr, errUnknownCopyOrFill))

\* what instr returns after the read e of an immediate: the instruction i,
\* or nil and the error of e
Got(e, i) ==
  [r |-> e.r,
   v |-> [i |-> IF e.err = "nil" THEN i ELSE NilInstr, isEnd |-> FALSE],
   err |-> e.err]

\* the case of opcode op, rd being the reader after the opcode byte
instrCase(op, rd) ==
  CASE op \in {2, 3, 4} ->
         Bind(eatBlock(rd), LAMBDA blk :
              Got(blk, CASE op = 2 -> OpBlock [] op = 3 -> OpLoop
                         [] op = 4 -> OpIf))
    [] op = 11 -> Ok(rd, [i |-> OpEnd, isEnd |-> TRUE])
    [] op = 32 ->
         Bind(eatU32(rd), LAMBDA idx : Got(idx, OpLocalGet(idx.v)))
    [] op = 33 ->
         Bind(eatU32(rd), LAMBDA idx :
              Got(idx, [op |-> "local.set", localIdx |-> idx.v]))
    [] op = 65 -> Bind(eatI32(rd), LAMBDA v : Got(v, OpConst(v.v)))
    [] op = 66 ->
         Bind(eatI64(rd), LAMBDA v :
              Got(v, [op |-> "const", val |-> ValueFromI64(v.v)]))
    [] op \in 40 .. 62 ->
         Bind(memoryArgs(rd), LAMBDA a :
              Got(a, IF op < 54
                       THEN [op |-> "load", loadFn |-> memFns[op - 39],
                             align |-> a.v.align, offset |-> a.v.offset]
                       ELSE [op |-> "store", storeFn |-> memFns[op - 39],
                             align |-> a.v.align, offset |-> a.v.offset]))
    [] op = 252 -> Bind(memoryCopyOrFill(rd), LAMBDA e : Got(e, e.v))
    [] op \in SimpleOpcodes -> Got(Ok(rd, op), SimpleInstr(op))
    [] op \in EmptyCaseOpcodes -> Got(Ok(rd, op), NilInstr)
    [] OTHER -> Got(Ok(rd, op), NilInstr)

\* instr: the value is [i, isEnd]
instr(rd) ==
  Bind(eatU8(rd), LAMBDA op :
  IF op.err # "nil" THEN Got(op, NilInstr) ELSE instrCase(op.v, op.r))

\* expr: instructions are appended until one is an End
RECURSIVE exprFrom(_, _)
exprFrom(rd, e) ==
  Bind(instr(rd), LAMBDA i :
  IF i.err # "nil" THEN Fail(i.r, e, i.err)
  ELSE IF i.v.isEnd THEN Ok(i.r, Append(e, i.v.i))
  ELSE exprFrom(i.r, Append(e, i.v.i)))

expr(rd) == exprFrom(rd, <<>>)

(***************************************************************************)
(* The sections that hold expressions.  A section that fails returns the   *)
(* entries decoded so far, the one that failed included.                   *)
(***************************************************************************)
NoGlobal == [type_ |-> [valueType |-> 0, mut |-> 0], initExpr |-> <<>>]

globalEntry(rd) ==
  Bind(globalType(rd), LAMBDA t :
  IF t.err # "nil" THEN Fail(t.r, [NoGlobal EXCEPT !.type_ = t.v], t.err)
  ELSE Bind(expr(t.r), LAMBDA e :
       [r |-> e.r, v |-> [type_ |-> t.v, initExpr |-> e.v], err |-> e.err]))

globalSection(rd) == vec(globalEntry, rd)

NoElem == [tableIdx |-> 0, offset |-> <<>>, init |-> <<>>]

elemEntry(rd) ==
  Bind(eatU32(rd), LAMBDA tableIdx :
  IF tableIdx.err # "nil" THEN Fail(tableIdx.r, NoElem, tableIdx.err)
  ELSE Bind(expr(tableIdx.r), LAMBDA offset :
  Bind([NoElem EXCEPT !.tableIdx = tableIdx.v, !.offset = offset.v],
       LAMBDA e :
  IF offset.err # "nil" THEN Fail(offset.r, e, offset.err)
  ELSE Bind(eatU32(offset.r), LAMBDA funcIdxCount :
  IF funcIdxCount.err # "nil" THEN Fail(funcIdxCount.r, e, funcIdxCount.err)
  ELSE Bind(loop(eatU32, FALSE, funcIdxCount.r, funcIdxCount.v, <<>>),
            LAMBDA init :
       [r |-> init.r, v |-> [e EXCEPT !.init = init.v],
        err |-> init.err])))))

elemSection(rd) == vec(elemEntry, rd)

NoData == [memIdx |-> 0, offset |-> <<>>, init |-> <<>>]

dataEntry(rd) ==
  Bind(eatU32(rd), LAMBDA memIdx :
  IF memIdx.err # "nil" THEN Fail(memIdx.r, NoData, memIdx.err)
  ELSE Bind(expr(memIdx.r), LAMBDA offset :
  Bind([NoData EXCEPT !.memIdx = memIdx.v, !.offset = offset.v], LAMBDA d :
  IF offset.err # "nil" THEN Fail(offset.r, d, offset.err)
  ELSE Bind(eatU32(offset.r), LAMBDA initCount :
  IF initCount.err # "nil" THEN Fail(initCount.r, d, initCount.err)
  ELSE Bind(eatBytes(initCount.r, initCount.v), LAMBDA init :
       [r |-> init.r, v |-> [d EXCEPT !.init = init.v],
        err |-> init.err])))))

dataSection(rd) == vec(dataEntry, rd)

exportImportKindFunc == 0
exportImportKindTable == 1
exportImportKindMem == 2
exportImportKindGlobal == 3

\* the descriptor of an import; a kind that is no case of the switch reads
\* nothing and is no error
importDesc(rd, kind) ==
  CASE kind = exportImportKindFunc ->
         Bind(eatU32(rd), LAMBDA e : [e EXCEPT !.v = [typeIdx |-> e.v]])
    [] kind = exportImportKindTable ->
         Bind(table(rd), LAMBDA e : [e EXCEPT !.v = [table |-> e.v]])
    [] kind = exportImportKindMem ->
         Bind(memory(rd), LAMBDA e : [e EXCEPT !.v = [mem |-> e.v]])
    [] kind = exportImportKindGlobal ->
         Bind(globalType(rd), LAMBDA e : [e EXCEPT !.v = [global |-> e.v]])
    [] OTHER -> Ok(rd, <<>>)

NoImport == [module |-> <<>>, name |-> <<>>, importDesc |-> <<>>]

importEntry(rd) ==
  Bind(name(rd), LAMBDA module_ :
  IF module_.err # "nil" THEN Fail(module_.r, NoImport, module_.err)
  ELSE Bind(name(module_.r), LAMBDA n :
  Bind([NoImport EXCEPT !.module = module_.v, !.name = n.v], LAMBDA i :
  IF n.err # "nil" THEN Fail(n.r, i, n.err)
  ELSE Bind(eatU8(n.r), LAMBDA kind :
  IF kind.err # "nil" THEN Fail(kind.r, i, kind.err)
  ELSE Bind(importDesc(kind.r, kind.v), LAMBDA d :
       [r |-> d.r, v |-> [i EXCEPT !.importDesc = d.v], err |-> d.err])))))

importSection(rd) == vec(importEntry, rd)

(***************************************************************************)
(* parser.codeSection.  The value is fs as the section leaves it: fs       *)
(* shares its array with m.funcs, so what is written before a return stays *)
(* in the module.  A failed read of the locals returns nil, no error.      *)
(***************************************************************************)
NoLocals == [count |-> 0, valType |-> 0]

\* the locals of one code entry: localsCount slots, filled from the input
\* until a read fails; ok tells whether every slot was read
RECURSIVE localsFrom(_, _, _)
localsFrom(rd, count, acc) ==
  IF count = 0 THEN [r |-> rd, v |-> acc, ok |-> TRUE]
  ELSE Bind(eatU32(rd), LAMBDA typeCount :
       IF typeCount.err # "nil"
         THEN [r |-> typeCount.r,
               v |-> acc \o [k \in 1 .. count |-> NoLocals], ok |-> FALSE]
       ELSE Bind(eatU8(typeCount.r), LAMBDA valType :
            IF valType.err # "nil"
              THEN [r |-> valType.r,
                    v |-> acc \o <<[NoLocals EXCEPT !.count = typeCount.v]>>
                              \o [k \in 1 .. count - 1 |-> NoLocals],
                    ok |-> FALSE]
            ELSE localsFrom(valType.r, count - 1,
                            Append(acc, [count |-> typeCount.v,
                                         valType |-> valType.v]))))

\* the entries of the code section from index i (1-based) on
RECURSIVE codeEntries(_, _, _)
codeEntries(rd, fs, i) ==
  IF i > Len(fs) THEN Ok(rd, fs)
  ELSE Bind(eatU32(rd), LAMBDA funcSize :
  IF funcSize.err # "nil" THEN Fail(funcSize.r, fs, funcSize.err)
  ELSE Bind(eatU32(funcSize.r), LAMBDA localsCount :
  IF localsCount.err # "nil" THEN Ok(localsCount.r, fs)
  ELSE Bind(localsFrom(localsCount.r, localsCount.v, <<>>), LAMBDA ls :
  IF ~ls.ok THEN Ok(ls.r, [fs EXCEPT ![i].locals = ls.v])
  ELSE Bind(expr(ls.r), LAMBDA body :
  Bind([fs EXCEPT ![i].locals = ls.v, ![i].body = body.v], LAMBDA withBody :
       IF body.err # "nil" THEN Fail(body.r, withBody, body.err)
       ELSE codeEntries(body.r, withBody, i + 1))))))

codeSection(rd, fs) ==
  Bind(eatU32(rd), LAMBDA count :
  IF count.err # "nil" THEN Fail(count.r, fs, count.err)
  ELSE IF count.v # Len(fs) THEN Fail(count.r, fs, errFuncCountMismatch)
  ELSE codeEntries(count.r, fs, 1))

(***************************************************************************)
(* The interpreter.                                                        *)
(***************************************************************************)
VARIABLES
  mod,         \* the module the interpreter was built from
  frameStack,  \* Interpreter.frameStack: frames [pc, sp, fn, labels]
  valueStack,  \* Interpreter.valueStack
  mems,        \* store.mems
  globals,     \* store.globals: [globalType, value]
  phase,       \* "idle", "running" (inside an invoker) or "panicked"
  fn,          \* the export the current or last invoker is bound to
  args,        \* the arguments of the current or last invocation
  ret,         \* what the last invoker returned: [err, results]
  calls,       \* invocations made so far
  steps,       \* instructions dispatched in the current invocation
  lookup,      \* the last call of GetFunc: [name, err]
  reader,      \* parser.r, the leb128Reader: [bytes, pos]
  module,      \* the module parse has decoded so far
  parseState,  \* "start", "sections" (in the section loop) or "returned"
  parseErr,    \* the error parse returned, "nil" for none
  eaten        \* what the last call on a bare reader returned

interpVars ==
  <<mod, frameStack, valueStack, mems, globals, phase, fn, args, ret, calls,
    steps, lookup>>
parserVars == <<reader, module, parseState, parseErr, eaten>>
vars == <<interpVars, parserVars>>

NoRet == [err |-> "nil", results |-> <<>>]
NoLookup == [name |-> "", err |-> "nil"]

\* mutant of NewMems: a page of 4096 bytes
NewMemsSmallPage(m) ==
  [i \in 1 .. Len(ModuleMems(m)) |->
     [memType |-> ModuleMems(m)[i],
      data |-> MakeBytes(ModuleMems(m)[i].limits.Min * 4096)]]

\* newStoreAndModuleInst: one memInst of Min pages of zero bytes per memory
NewMems(m) ==
  [i \in 1 .. Len(ModuleMems(m)) |->
     [memType |-> ModuleMems(m)[i],
      data |-> MakeBytes(ModuleMems(m)[i].limits.Min * PAGE_SIZE)]]

\* newStoreAndModuleInst: a data segment must fit its memory
RECURSIVE DatasFit(_, _)
DatasFit(ms, ds) ==
  IF ds = <<>> THEN TRUE
  ELSE /\ ~(ms[Head(ds).memIdx + 1].data.len
             < Head(ds).offset + Len(Head(ds).init))
       /\ DatasFit(ms, Tail(ds))

\* newStoreAndModuleInst: the init bytes of each data segment are copied in
RECURSIVE CopyDatas(_, _)
CopyDatas(ms, ds) ==
  IF ds = <<>> THEN ms
  ELSE CopyDatas([ms EXCEPT ![Head(ds).memIdx + 1].data =
                    CopyInto(@, Head(ds).offset, Head(ds).init)], Tail(ds))

\* the eval of newStoreAndModuleInst on an initialiser of constants: each
\* instruction is executed in turn on a mock frame, the End included (it
\* pops the mock frame), and the value left on top is popped
RECURSIVE evalFrom(_, _)
evalFrom(e, vs) ==
  IF e = <<>> THEN vs
  ELSE evalFrom(Tail(e),
                IF Head(e).op = "const" THEN Push(vs, Head(e).val) ELSE vs)

eval(e) == PopVal(evalFrom(e, <<>>))

\* newStoreAndModuleInst: one globalInst per global, its value the
\* initialiser's
NewGlobals(m) ==
  [i \in 1 .. Len(ModuleGlobals(m)) |->
     [globalType |-> ModuleGlobals(m)[i].type_,
      value |-> eval(ModuleGlobals(m)[i].initExpr)]]

\* moduleInst.globalAddrs: the address of global i is i
globalAddrs(m) == [i \in 1 .. Len(ModuleGlobals(m)) |-> i - 1]

NoEaten == [fn |-> "none", from |-> 0, v |-> {}, err |-> "nil"]
\* module{}: the zero value of every field
EmptyModule ==
  [custom |-> [name |-> <<>>, data |-> <<>>], types |-> <<>>, funcs |-> <<>>,
   tables |-> <<>>, mems |-> <<>>, globals |-> <<>>, elems |-> <<>>,
   datas |-> <<>>, start |-> [funcIdx |-> 0], imports |-> <<>>,
   exports |-> <<>>]

errCantFind == "can't find func"
errNotAFunc == "not a func"

\* moduleInst.funcAddrs: one entry per function of the module, here the
\* name the model gives the function
funcAddrs(m) ==
  CASE m.kind = "arith" -> <<"add", "div_s">>
    [] m.kind = "ctl" -> <<"nop", "ret", "fill", "trap", "blk", "lp", "ifelse", "ifonly">>
    [] m.kind = "local" -> <<"getlocal", "onlylocal", "setlocal", "setparam">>
    [] m.kind = "br" ->
         <<"countdown", "brif", "brtable", "br0", "brdeep", "brout", "blk2">>
    [] m.kind = "global" -> <<"set0", "set1", "set2", "set64", "setnone", "get">>
    [] m.kind = "operand" -> <<"sub", "shl", "lt_s">>
    [] m.kind = "mem" -> <<"load", "store", "st_ld8", "size", "grow", "copy">>

\* moduleInst.exports, copied from the export section, which nothing
\* validates: the memory, every function under its name, a name exported
\* first as a global and then as a func ("dup"), the name of the first
\* function exported again as a table, and a func export whose index is
\* past the functions of the module ("ghost"), as the index of a function
\* defined behind an imported one is
Exports(m) ==
  (IF m.kind = "mem"
     THEN <<[name |-> "memory", kind |-> exportImportKindMem, idx |-> 0]>>
     ELSE <<>>)
    \o <<[name |-> "dup", kind |-> exportImportKindGlobal, idx |-> 0]>>
    \o [i \in 1 .. Len(funcAddrs(m)) |->
          [name |-> funcAddrs(m)[i], kind |-> exportImportKindFunc,
           idx |-> i - 1]]
    \o <<[name |-> "dup", kind |-> exportImportKindFunc, idx |-> 0],
         [name |-> funcAddrs(m)[1], kind |-> exportImportKindTable, idx |-> 0],
         [name |-> "ghost", kind |-> exportImportKindFunc,
          idx |-> Len(funcAddrs(m))]>>

\* the names the harness asks GetFunc for
LookupNames(m) ==
  {Exports(m)[i].name : i \in DOMAIN Exports(m)} \cup {"missing"}

\* the loop of GetFunc: the first export of the name decides
GetFunc(m, fnName) ==
  LET named == {i \in DOMAIN Exports(m) : Exports(m)[i].name = fnName} IN
  IF named = {} THEN [err |-> errCantFind, fnIdx |-> -1]
  ELSE LET export == Exports(m)[CHOOSE i \in named : \A j \in named : i <= j]
       IN IF export.kind # exportImportKindFunc
            THEN [err |-> errNotAFunc, fnIdx |-> -1]
            ELSE [err |-> "nil", fnIdx |-> export.idx]

\* no parser or bare reader is at work
ParserIdle ==
  /\ reader = [bytes |-> <<>>, pos |-> 0]
  /\ module = EmptyModule
  /\ parseState = "returned"
  /\ parseErr = "nil"
  /\ eaten = NoEaten

\* no interpreter has been built
NoInterpreter ==
  /\ mod = [kind |-> "none"]
  /\ frameStack = <<>>
  /\ valueStack = <<>>
  /\ mems = <<>>
  /\ globals = <<>>
  /\ phase = "idle"
  /\ fn = ""
  /\ args = <<>>
  /\ ret = NoRet
  /\ calls = 0
  /\ steps = 0
  /\ lookup = NoLookup

\* the state NewInterpreter returns for a module it accepts
Init ==
  /\ mod \in Modules
  /\ DatasFit(NewMems(mod), ModuleDatas(mod))
  /\ frameStack = <<>>
  /\ valueStack = <<>>
  /\ mems = CopyDatas(NewMems(mod), ModuleDatas(mod))
  /\ globals = NewGlobals(mod)
  /\ phase = "idle"
  /\ fn = ""
  /\ args = <<>>
  /\ ret = NoRet
  /\ calls = 0
  /\ steps = 0
  /\ lookup = NoLookup
  /\ ParserIdle

\* mutant of PushArgs: the arguments are pushed in their order
PushArgsInOrder(vs, as) == vs \o as

\* the invoker pushes args[len-1] first and args[0] last
RECURSIVE PushArgs(_, _)
PushArgs(vs, as) ==
  IF as = <<>> THEN vs
  ELSE PushArgs(Push(vs, as[Len(as)]), SubSeq(as, 1, Len(as) - 1))

\* the invoker returned by GetFunc(f), called with as: the frame is pushed,
\* then the arguments
Invoke(f, as) ==
  /\ phase = "idle"
  /\ calls < MaxInvocations
  /\ frameStack' = Push(frameStack,
                        [pc |-> 0, sp |-> Len(valueStack), fn |-> f,
                         labels |-> <<>>])
  /\ valueStack' = PushArgs(valueStack, as)
  /\ phase' = "running"
  /\ fn' = f
  /\ args' = as
  /\ ret' = NoRet
  /\ calls' = calls + 1
  /\ steps' = 0
  /\ UNCHANGED <<mod, mems, globals>>
  /\ UNCHANGED parserVars

\* the calls of GetFunc the harness makes, each with what it returns
Lookups(m) == {[name |-> n, got |-> GetFunc(m, n)] : n \in LookupNames(m)}

\* GetFunc found a func export whose index is a function of the module:
\* the invoker it returns is called
GetFuncInvoke ==
  \E l \in Lookups(mod) :
    /\ l.got.err = "nil"
    /\ l.got.fnIdx < Len(funcAddrs(mod))
    /\ lookup' = [name |-> l.name, err |-> "nil"]
    /\ \E as \in ArgSets(mod, funcAddrs(mod)[l.got.fnIdx + 1]) :
         Invoke(funcAddrs(mod)[l.got.fnIdx + 1], as)

\* GetFunc returns an error: no export of that name, or one that is no func
GetFuncError ==
  /\ phase = "idle"
  /\ \E l \in Lookups(mod) :
       /\ l.got.err # "nil"
       /\ lookup' = [name |-> l.name, err |-> l.got.err]
  /\ UNCHANGED <<mod, frameStack, valueStack, mems, globals, phase, fn, args,
                 ret, calls, steps>>
  /\ UNCHANGED parserVars

\* GetFunc found a func export whose index is past funcAddrs: the index
\* expression panics
GetFuncPanic ==
  /\ phase = "idle"
  /\ \E l \in Lookups(mod) :
       /\ l.got.err = "nil"
       /\ l.got.fnIdx >= Len(funcAddrs(mod))
       /\ lookup' = [name |-> l.name, err |-> "nil"]
  /\ phase' = "panicked"
  /\ UNCHANGED <<mod, frameStack, valueStack, mems, globals, fn, args, ret,
                 calls, steps>>
  /\ UNCHANGED parserVars

\* the frame on top, its instructions, and the one Execute fetches
Frame == frameStack[Len(frameStack)]
Insts == Funcs(mod)[Frame.fn].body
Instr == Insts[Frame.pc + 1]

Dispatch(o) ==
  /\ phase = "running"
  /\ frameStack # <<>>
  /\ steps < MaxSteps
  /\ Instr.op = o

NextStep(f) == [f EXCEPT !.pc = @ + 1]
SetTop(fs, f) == [fs EXCEPT ![Len(fs)] = f]

\* mutant of CleanupValueStack: the operand stack is not reset
CleanupValueStackKept == valueStack

\* the stacks after the invoker's cleanup
CleanupFrameStack == <<>>
CleanupValueStack == <<>>

\* exec returned nil: Execute goes on with the stacks and memories given
Continue(fs, vs, ms) ==
  /\ frameStack' = fs
  /\ valueStack' = vs
  /\ mems' = ms
  /\ steps' = steps + 1
  /\ UNCHANGED <<mod, globals, phase, fn, args, ret, calls, lookup>>
  /\ UNCHANGED parserVars

\* exec returned e: Execute returns it, the invoker clears both stacks and
\* returns (nil, e)
Trap(e) ==
  /\ frameStack' = CleanupFrameStack
  /\ valueStack' = CleanupValueStack
  /\ phase' = "idle"
  /\ ret' = [err |-> e, results |-> <<>>]
  /\ steps' = steps + 1
  /\ UNCHANGED <<mod, mems, globals, fn, args, calls, lookup>>
  /\ UNCHANGED parserVars

\* a run-time panic of the Go program: nothing catches it
Panic ==
  /\ phase' = "panicked"
  /\ steps' = steps + 1
  /\ UNCHANGED <<mod, frameStack, valueStack, mems, globals, fn, args, ret,
                 calls, lookup>>
  /\ UNCHANGED parserVars

\* the results the invoker pops once Execute has returned nil
RECURSIVE PopResults(_, _)
PopResults(vs, n) ==
  IF n = 0 THEN <<>> ELSE <<PopVal(vs)>> \o PopResults(PopRest(vs), n - 1)

RECURSIVE PopN(_, _)
PopN(vs, n) == IF n = 0 THEN vs ELSE PopN(PopRest(vs), n - 1)

InvokerReturn ==
  /\ phase = "running"
  /\ frameStack = <<>>
  /\ ret' = [err |-> "nil",
             results |-> PopResults(valueStack, Funcs(mod)[fn].nresults)]
  /\ valueStack' = PopN(valueStack, Funcs(mod)[fn].nresults)
  /\ phase' = "idle"
  /\ UNCHANGED <<mod, frameStack, mems, globals, fn, args, calls, steps,
                 lookup>>
  /\ UNCHANGED parserVars

(***************************************************************************)
(* One action per instruction variant: Execute fetches the instruction at  *)
(* the top frame's pc and calls its exec.                                  *)
(***************************************************************************)
opLocalGetExec ==
  /\ Dispatch("local.get")
  /\ IF ~GetOk(valueStack, Frame.sp, Instr.localIdx)
       THEN Trap(errLocalNotFound)
       ELSE Continue(SetTop(frameStack, NextStep(Frame)),
                     Push(valueStack,
                          GetVal(valueStack, Frame.sp, Instr.localIdx)),
                     mems)

opConstExec ==
  /\ Dispatch("const")
  /\ Continue(SetTop(frameStack, NextStep(Frame)),
              Push(valueStack, Instr.val), mems)

opDropExec ==
  /\ Dispatch("drop")
  /\ Continue(SetTop(frameStack, NextStep(Frame)), PopRest(valueStack), mems)

\* opBin.exec: a is popped first, b second, and binFn(a, b) is pushed
opBinExec ==
  /\ Dispatch("bin")
  /\ LET a == PopVal(valueStack)
         b == PopVal(PopRest(valueStack))
         r == binFn(Instr.binFn, a, b)
     IN IF r.err # "nil" THEN Trap(r.err)
        ELSE Continue(SetTop(frameStack, NextStep(Frame)),
                      Push(PopRest(PopRest(valueStack)), r.val), mems)

\* opRel.exec: a is popped first, b second, and numericBool(relFn(a, b)) is
\* pushed
opRelExec ==
  /\ Dispatch("rel")
  /\ LET a == PopVal(valueStack)
         b == PopVal(PopRest(valueStack))
     IN Continue(SetTop(frameStack, NextStep(Frame)),
                 Push(PopRest(PopRest(valueStack)),
                      numericBool(relFn(Instr.relFn, a, b))), mems)

opLoadExec ==
  /\ Dispatch("load")
  /\ IF mems = <<>> THEN Panic
     ELSE LET baseAddrI32 == I32(PopVal(valueStack))
              addr == addInt32(baseAddrI32, Instr.offset)
              r == loadFn(Instr.loadFn, mems[1], addr)
          IN IF baseAddrI32 < 0 \/ Instr.offset < 0 THEN Trap(errOutOfBounds)
             ELSE IF r.err # "nil" THEN Trap(r.err)
             ELSE IF r.panic THEN Panic
             ELSE Continue(SetTop(frameStack, NextStep(Frame)),
                           Push(PopRest(valueStack), r.val), mems)

\* opStore.exec: one operand is popped; it is the value stored and, with
\* the static offset added, the address
opStoreExec ==
  /\ Dispatch("store")
  /\ IF mems = <<>> THEN Panic
     ELSE LET value == PopVal(valueStack)
              addr == addInt32(I32(value), Instr.offset)
              r == i32store(mems[1], addr, value)
          IN IF r.panic THEN Panic
             ELSE Continue(SetTop(frameStack, NextStep(Frame)),
                           PopRest(valueStack),
                           [mems EXCEPT ![1].data = r.data])

\* opMemorySize.exec pushes mem.size(), the length in bytes
opMemorySizeExec ==
  /\ Dispatch("memory.size")
  /\ IF mems = <<>> THEN Panic
     ELSE Continue(SetTop(frameStack, NextStep(Frame)),
                   Push(valueStack, ValueFrom("int32", size(mems[1]), "I32")),
                   mems)

\* opMemoryGrow.exec: mem is a copy of store.mems[0], so the slice grow
\* assigns to it is dropped; both pushed values are built from a Go int
opMemoryGrowExec ==
  /\ Dispatch("memory.grow")
  /\ IF mems = <<>> THEN Panic
     ELSE LET currentPages == pages(mems[1])
              pagesWant == I32(PopVal(valueStack))
              r == grow(mems[1], pagesWant)
          IN IF r.panic THEN Panic
             ELSE Continue(SetTop(frameStack, NextStep(Frame)),
                           Push(PopRest(valueStack),
                                IF r.err # "nil"
                                  THEN ValueFrom("int", -1, "I32")
                                  ELSE ValueFrom("int", currentPages, "I32")),
                           mems)

\* opMemoryCopy.exec: len, src and dst are popped in this order; the two
\* slice expressions panic outside 0 <= low <= high <= len(mem.data), and
\* copy moves as many bytes as the shorter slice has.  mem is a copy of the
\* memInst but shares its backing array, so the bytes of the store change
opMemoryCopyExec ==
  /\ Dispatch("memory.copy")
  /\ IF mems = <<>> THEN Panic
     ELSE LET length == I32(PopVal(valueStack))
              src == I32(PopVal(PopRest(valueStack)))
              dst == I32(PopVal(PopRest(PopRest(valueStack))))
              high == addInt32(src, length)
              n == IF length < size(mems[1]) - dst
                     THEN length ELSE size(mems[1]) - dst
          IN IF \/ dst < 0 \/ dst > size(mems[1])
                \/ src < 0 \/ high < src \/ high > size(mems[1])
               THEN Panic
               ELSE Continue(SetTop(frameStack, NextStep(Frame)),
                             PopN(valueStack, 3),
                             [mems EXCEPT ![1].data =
                                CopyInto(@, dst, ReadBytes(@, src, n))])

\* the stubs: exec returns nil and touches nothing
opMemoryFillExec == Dispatch("memory.fill") /\ Continue(frameStack, valueStack, mems)
opNopExec == Dispatch("nop") /\ Continue(frameStack, valueStack, mems)
opReturnExec == Dispatch("return") /\ Continue(frameStack, valueStack, mems)

opUnreachableExec == Dispatch("unreachable") /\ Trap(errUnreachable)

PushLabel(f, l) == [f EXCEPT !.labels = Push(@, l)]

opBlockExec ==
  /\ Dispatch("block")
  /\ LET nextPc == nextEndAddr(Frame.pc + 1, Insts)
     IN IF nextPc < 0 THEN Trap(errNoEnd)
        ELSE Continue(SetTop(frameStack,
                             NextStep(PushLabel(Frame,
                               [kind |-> "block", startPc |-> Frame.pc,
                                endPc |-> nextPc]))),
                      valueStack, mems)

\* opLoop.exec pushes its label and leaves pc on the loop
opLoopExec ==
  /\ Dispatch("loop")
  /\ LET nextPc == nextEndAddr(Frame.pc + 1, Insts)
     IN IF nextPc < 0 THEN Trap(errNoEnd)
        ELSE Continue(SetTop(frameStack,
                             PushLabel(Frame,
                               [kind |-> "loop", startPc |-> Frame.pc,
                                endPc |-> nextPc])),
                      valueStack, mems)

\* opIf.exec: pc moves only when the condition is false
opIfExec ==
  /\ Dispatch("if")
  /\ LET cond == PopVal(valueStack)
         nextPc == nextEndAddr(Frame.pc + 1, Insts)
         addr == nextElseOrEndAddr(Frame.pc + 1, Insts)
         pc1 == IF Bool(cond) THEN Frame.pc ELSE addr
     IN IF nextPc < 0 THEN Trap(errNoEnd)
        ELSE IF BoolPanics(cond) THEN Panic
        ELSE IF ~Bool(cond) /\ addr < 0 THEN Trap(errNoElseOrEnd)
        ELSE Continue(SetTop(frameStack,
                             PushLabel([Frame EXCEPT !.pc = pc1],
                               [kind |-> "if", startPc |-> pc1,
                                endPc |-> nextPc])),
                      PopRest(valueStack), mems)

opElseExec ==
  /\ Dispatch("else")
  /\ IF Frame.labels = <<>> THEN Trap(errNoLabelElse)
     ELSE Continue(SetTop(frameStack,
                          [Frame EXCEPT !.labels = PopRest(@),
                                        !.pc = PopVal(Frame.labels).endPc]),
                   valueStack, mems)

\* opEnd.exec: without a label the frame is popped, with one pc becomes the
\* label's endPc
opEndExec ==
  /\ Dispatch("end")
  /\ IF Frame.labels = <<>>
       THEN Continue(PopRest(frameStack), valueStack, mems)
       ELSE Continue(SetTop(frameStack,
                            [Frame EXCEPT !.labels = PopRest(@),
                                          !.pc = PopVal(Frame.labels).endPc]),
                     valueStack, mems)

errNoLabel == "no label found level"
errGlobalConst == "global is a const value"
errGlobalTypes == "global and value types do not match"

\* opLocalSet.exec: the operand is popped, then written to slot sp+localIdx
\* of what is left; the slice index panics past the top
opLocalSetExec ==
  /\ Dispatch("local.set")
  /\ LET v == PopVal(valueStack)
         rest == PopRest(valueStack)
     IN IF Frame.sp + Instr.localIdx >= Len(rest) THEN Panic
        ELSE Continue(SetTop(frameStack, NextStep(Frame)),
                      [rest EXCEPT ![Frame.sp + Instr.localIdx + 1] = v],
                      mems)

\* br: Peek(level) fails on an empty label stack only, and its index
\* expression panics for a level that is not below the number of labels;
\* the labels are left as they are
br(labels, level) ==
  IF labels = <<>> THEN [pc |-> 0, err |-> errNoLabel, panic |-> FALSE]
  ELSE IF level < 0 \/ level >= Len(labels)
    THEN [pc |-> 0, err |-> "nil", panic |-> TRUE]
  ELSE LET label == labels[Len(labels) - level]
       IN [pc |-> IF label.kind = "loop" THEN label.startPc
                  ELSE label.endPc,
           err |-> "nil", panic |-> FALSE]

\* frame.pc, err = br(...), on the operand stack vs
Branch(b, vs) ==
  IF b.panic THEN Panic
  ELSE IF b.err # "nil" THEN Trap(b.err)
  ELSE Continue(SetTop(frameStack, [Frame EXCEPT !.pc = b.pc]), vs, mems)

opBrExec ==
  /\ Dispatch("br")
  /\ Branch(br(Frame.labels, Instr.level), valueStack)

opBrIfExec ==
  /\ Dispatch("br_if")
  /\ LET cond == PopVal(valueStack)
     IN IF BoolPanics(cond) THEN Panic
        ELSE IF Bool(cond)
          THEN Branch(br(Frame.labels, Instr.level), PopRest(valueStack))
        ELSE Continue(SetTop(frameStack, NextStep(Frame)),
                      PopRest(valueStack), mems)

\* the level opBrTable.exec takes: idx is int(idxValue.I32()), compared as
\* a signed number, and the index expression panics for a negative idx
brTableLevel(o, idx) ==
  IF idx < Len(o.labelIdxArr)
    THEN (IF idx < 0 THEN [level |-> 0, panic |-> TRUE]
          ELSE [level |-> o.labelIdxArr[idx + 1], panic |-> FALSE])
    ELSE [level |-> o.defaultIdx, panic |-> FALSE]

opBrTableExec ==
  /\ Dispatch("br_table")
  /\ LET l == brTableLevel(Instr, I32(PopVal(valueStack)))
     IN IF l.panic THEN Panic
        ELSE Branch(br(Frame.labels, l.level), PopRest(valueStack))

opGlobalGetExec ==
  /\ Dispatch("global.get")
  /\ IF Instr.globalIdx >= Len(globalAddrs(mod)) THEN Panic
     ELSE Continue(SetTop(frameStack, NextStep(Frame)),
                   Push(valueStack,
                        globals[globalAddrs(mod)[Instr.globalIdx + 1] + 1]
                          .value),
                   mems)

\* mutant of globalSetErr: the mutability is not looked at
globalSetErrAnyMut(global, v) ==
  IF global.globalType.valueType # TypeTag(v.ValType) THEN errGlobalTypes
  ELSE "nil"

\* the checks of opGlobalSet.exec on the global and the value on top
globalSetErr(global, v) ==
  IF global.globalType.mut = const_ THEN errGlobalConst
  ELSE IF global.globalType.valueType # TypeTag(v.ValType)
    THEN errGlobalTypes
  ELSE "nil"

\* opGlobalSet.exec: global is a copy of store.globals[globalAddr], and the
\* value is assigned to the copy: the store keeps what it held.  The
\* operand stays on the stack
opGlobalSetExec ==
  /\ Dispatch("global.set")
  /\ IF Instr.globalIdx >= Len(globalAddrs(mod)) THEN Panic
     ELSE LET global == globals[globalAddrs(mod)[Instr.globalIdx + 1] + 1]
              e == globalSetErr(global, PopVal(valueStack))
          IN IF e # "nil" THEN Trap(e)
             ELSE Continue(SetTop(frameStack, NextStep(Frame)), valueStack,
                           mems)

Next ==
  \/ GetFuncInvoke
  \/ GetFuncError
  \/ GetFuncPanic
  \/ InvokerReturn
  \/ opLocalGetExec
  \/ opLocalSetExec
  \/ opBrExec
  \/ opBrIfExec
  \/ opBrTableExec
  \/ opGlobalGetExec
  \/ opGlobalSetExec
  \/ opConstExec
  \/ opDropExec
  \/ opBinExec
  \/ opRelExec
  \/ opLoadExec
  \/ opStoreExec
  \/ opMemorySizeExec
  \/ opMemoryGrowExec
  \/ opMemoryCopyExec
  \/ opMemoryFillExec
  \/ opNopExec
  \/ opReturnExec
  \/ opUnreachableExec
  \/ opBlockExec
  \/ opLoopExec
  \/ opIfExec
  \/ opElseExec
  \/ opEndExec

Spec == Init /\ [][Next]_vars

(***************************************************************************)
(* The reader on its own: eatU64 and eatI64 called in a row on one input,  *)
(* as reader_test.go calls them.                                           *)
(***************************************************************************)
Rep(b, n) == [i \in 1 .. n |-> b]

\* the table of TestUnsigned: the value expected and the bytes read
unsignedCases ==
  {[expect |-> BitsOfNat(0), bytes |-> <<0>>],
   [expect |-> BitsOfNat(127), bytes |-> <<127>>],
   [expect |-> BitsOfNat(128), bytes |-> <<128, 1>>],
   [expect |-> BitsOfNat(255), bytes |-> <<255, 1>>],
   [expect |-> BitsOfNat(2333), bytes |-> <<157, 18>>],
   [expect |-> BitsOfNat(61207), bytes |-> <<151, 222, 3>>],
   [expect |-> BitsOfNat(624485), bytes |-> <<229, 142, 38>>],
   [expect |-> BitsOfNat(65535), bytes |-> <<255, 255, 3>>],
   [expect |-> 0 .. 63, bytes |-> Rep(255, 9) \o <<1>>]}

\* the table of TestSigned
signedCases ==
  {[expect |-> {63}, bytes |-> Rep(128, 9) \o <<127>>],
   [expect |-> BitsOfInt(-624485), bytes |-> <<155, 241, 89>>],
   [expect |-> BitsOfInt(-65), bytes |-> <<191, 127>>],
   [expect |-> BitsOfInt(-64), bytes |-> <<64>>],
   [expect |-> BitsOfInt(-1), bytes |-> <<127>>],
   [expect |-> BitsOfInt(0), bytes |-> <<0>>],
   [expect |-> BitsOfInt(1), bytes |-> <<1>>],
   [expect |-> BitsOfInt(63), bytes |-> <<63>>],
   [expect |-> BitsOfInt(64), bytes |-> <<192, 0>>],
   [expect |-> BitsOfInt(61207), bytes |-> <<151, 222, 3>>],
   [expect |-> 0 .. 62, bytes |-> Rep(255, 9) \o <<0>>]}

\* bytes that differ in bit 7 and in bit 6, and the inputs made of them:
\* every sequence of up to MaxLebLen, and two encodings longer than 64 bits
LebBytes == {0, 63, 64, 127, 128, 191, 192, 255}
LebInputs ==
  {c.bytes : c \in unsignedCases \cup signedCases}
    \cup UNION {[1 .. k -> LebBytes] : k \in 1 .. MaxLebLen}
    \cup {Rep(128, 10) \o <<127>>, Rep(255, 10) \o <<1>>}

ReaderInit ==
  /\ NoInterpreter
  /\ reader \in {[bytes |-> b, pos |-> 0] : b \in LebInputs}
  /\ module = EmptyModule
  /\ parseState = "returned"
  /\ parseErr = "nil"
  /\ eaten = NoEaten

\* one call of eat on the reader, after calls that returned no error
Eat(what, e) ==
  /\ eaten.err = "nil"
  /\ eaten' = [fn |-> what, from |-> reader.pos, v |-> e.v, err |-> e.err]
  /\ reader' = e.r
  /\ UNCHANGED <<interpVars, module, parseState, parseErr>>

eatU64Call == Eat("eatU64", eatU64(reader))
eatI64Call == Eat("eatI64", eatI64(reader))

ReaderNext == eatU64Call \/ eatI64Call

ReaderSpec == ReaderInit /\ [][ReaderNext]_vars

(***************************************************************************)
(* The binary numeric functions on their own: each is applied to a pair of *)
(* operands, args[1] being a and args[2] being b; fn names the function    *)
(* applied last and ret holds what it returned.                            *)
(***************************************************************************)
\* int32 operands: the ends of the range, small values of both signs, and
\* counts around the bit widths
I32Operands ==
  {MinInt32, MinInt32 + 1, -65, -33, -32, -7, -2, -1, 0, 1, 2, 7, 31, 32, 33,
   64, 65, MaxInt32 - 1, MaxInt32}

\* int64 operands: patterns with the top bit, with bits above bit 31 only,
\* and counts around 64
I64Operands ==
  {{}, {0}, {0, 63}, {63}, 0 .. 63, 0 .. 62, {32}, {6}, {0, 6}, {1, 7},
   0 .. 5, {0, 1}, {0, 32}, BitsOfNat(305419896)}

NumericInputs ==
  {<<ValueFromI32(a), ValueFromI32(b)>> : a, b \in I32Operands}
    \cup {<<ValueFromI64(a), ValueFromI64(b)>> : a, b \in I64Operands}

NumericInit ==
  /\ mod = [kind |-> "none"]
  /\ frameStack = <<>>
  /\ valueStack = <<>>
  /\ mems = <<>>
  /\ globals = <<>>
  /\ phase = "idle"
  /\ fn = ""
  /\ args \in NumericInputs
  /\ ret = NoRet
  /\ calls = 0
  /\ steps = 0
  /\ lookup = NoLookup
  /\ ParserIdle

\* one call of the binary function f on operands of type t
Apply(f, t) ==
  /\ args[1].ValType = t
  /\ fn' = f
  /\ ret' = [err |-> binFn(f, args[1], args[2]).err,
             results |-> <<binFn(f, args[1], args[2]).val>>]
  /\ UNCHANGED <<mod, frameStack, valueStack, mems, globals, phase, args,
                 calls, steps, lookup>>
  /\ UNCHANGED parserVars

i32MulCall == Apply("i32Mul", "I32")
i32DivSCall == Apply("i32DivS", "I32")
i32RemSCall == Apply("i32RemS", "I32")
i32ShlCall == Apply("i32Shl", "I32")
i32ShrSCall == Apply("i32ShrS", "I32")
i32ShrUCall == Apply("i32ShrU", "I32")
i32RotLCall == Apply("i32RotL", "I32")
i32RotRCall == Apply("i32RotR", "I32")
i64ShlCall == Apply("i64Shl", "I64")
i64ShrSCall == Apply("i64ShrS", "I64")
i64ShrUCall == Apply("i64ShrU", "I64")
i64RotLCall == Apply("i64RotL", "I64")
i64RotRCall == Apply("i64RotR", "I64")

NumericNext ==
  \/ i32MulCall
  \/ i32DivSCall
  \/ i32RemSCall
  \/ i32ShlCall
  \/ i32ShrSCall
  \/ i32ShrUCall
  \/ i32RotLCall
  \/ i32RotRCall
  \/ i64ShlCall
  \/ i64ShrSCall
  \/ i64ShrUCall
  \/ i64RotLCall
  \/ i64RotRCall

NumericSpec == NumericInit /\ [][NumericNext]_vars

(***************************************************************************)
(* The parser on its own: parse called on one input.  The position of      *)
(* parse is parseState: "start" before the header, "sections" at the top   *)
(* of the section loop, "returned" afterwards.  One step of the loop reads *)
(* a section header and runs the case of its id.                           *)
(***************************************************************************)
wasmHeader == <<0, 97, 115, 109, 1, 0, 0, 0>>

\* (func (export "add") (param i32 i32) (result i32)
\*   local.get 0  local.get 1  i32.add)
addModule ==
  wasmHeader
    \o <<1, 7, 1, 96, 2, 127, 127, 1, 127>>
    \o <<3, 2, 1, 0>>
    \o <<7, 7, 1, 3, 97, 100, 100, 0, 0>>
    \o <<10, 9, 1, 7, 0, 32, 0, 32, 1, 106, 11>>

\* (memory 1 3)
\* (func (export "f") (result i32) (block (i32.const 1) (drop)) (i32.const 2))
\* (func (export "g") (result i32) (i32.const 7))
\* (data (i32.const 0) "\78\56")
nestedModule ==
  wasmHeader
    \o <<1, 5, 1, 96, 0, 1, 127>>
    \o <<3, 3, 2, 0, 0>>
    \o <<5, 4, 1, 1, 1, 3>>
    \o <<7, 9, 2, 1, 102, 0, 0, 1, 103, 0, 1>>
    \o <<10, 17, 2, 10, 0, 2, 64, 65, 1, 26, 11, 65, 2, 11, 4, 0, 65, 7, 11>>
    \o <<11, 8, 1, 0, 65, 0, 11, 2, 120, 86>>

\* a module with a section of every id: an imported function, a table, a
\* memory, a global, an export, a start function, an element segment, a
\* function of two i32 locals, an empty data segment and a custom section
\* "a" of three bytes
everySectionModule ==
  wasmHeader
    \o <<1, 4, 1, 96, 0, 0>>
    \o <<2, 7, 1, 1, 109, 1, 102, 0, 0>>
    \o <<3, 2, 1, 0>>
    \o <<4, 4, 1, 112, 0, 1>>
    \o <<5, 3, 1, 0, 1>>
    \o <<6, 6, 1, 127, 0, 65, 42, 11>>
    \o <<7, 5, 1, 1, 109, 2, 0>>
    \o <<8, 1, 0>>
    \o <<9, 7, 1, 0, 65, 0, 11, 1, 0>>
    \o <<10, 7, 1, 5, 1, 2, 127, 1, 11>>
    \o <<11, 6, 1, 0, 65, 0, 11, 0>>
    \o <<0, 5, 1, 97, 120, 121, 122>>

\* one function of no parameter whose code entry is code
oneFuncModule(code) ==
  wasmHeader \o <<1, 4, 1, 96, 0, 0>> \o <<3, 2, 1, 0>>
    \o <<10, Len(code) + 2, 1, Len(code)>> \o code

\* bodies with a byte that is no opcode (0x06, 0xFF), with br 0, with
\* memory.copy, memory.fill and 0xFC of an unknown kind, and with an i64
\* constant, a store and local.set
opcodeModules ==
  {oneFuncModule(code) :
     code \in {<<0, 6, 11>>, <<0, 255, 11>>, <<0, 12, 0, 11>>,
               <<0, 252, 10, 0, 0, 11>>, <<0, 252, 11, 0, 11>>,
               <<0, 252, 9, 11>>, <<0, 66, 127, 26, 11>>,
               <<0, 65, 0, 65, 1, 54, 2, 0, 11>>, <<0, 65, 1, 33, 0, 11>>}}

\* a section of an id above 11, between two type sections and at the end
unknownSectionModules ==
  {wasmHeader \o <<12, 0>>,
   wasmHeader \o <<1, 4, 1, 96, 0, 0>> \o <<12, 0>> \o <<3, 2, 1, 0>>,
   wasmHeader \o <<200, 1, 0>>}

\* addModule with another magic or version
WithByte(bs, k, b) == [bs EXCEPT ![k] = b]
headerMutants ==
  {WithByte(addModule, 1, 1), WithByte(addModule, 4, 108),
   WithByte(addModule, 5, 2), WithByte(addModule, 5, 0),
   WithByte(addModule, 8, 1),
   <<109, 115, 97, 0, 1, 0, 0, 0>> \o SubSeq(addModule, 9, Len(addModule)),
   <<0, 97, 115, 109, 0, 0, 0, 1>> \o SubSeq(addModule, 9, Len(addModule)),
   <<0, 97, 115, 110, 2, 0, 0, 0>>}

Prefixes(bs) == {SubSeq(bs, 1, n) : n \in 0 .. Len(bs)}

ParseInputs ==
  Prefixes(addModule) \cup Prefixes(nestedModule)
    \cup Prefixes(everySectionModule)
    \cup opcodeModules \cup unknownSectionModules \cup headerMutants

ParseInit ==
  /\ NoInterpreter
  /\ reader \in {[bytes |-> b, pos |-> 0] : b \in ParseInputs}
  /\ module = EmptyModule
  /\ parseState = "start"
  /\ parseErr = "nil"
  /\ eaten = NoEaten

\* mutant of headerMatches: the version is not looked at
headerMatchesMagicOnly(h) == h.magic = BitsOfNat(WASM_MAGIC)

\* magic == WASM_MAGIC && version == 1
headerMatches(h) ==
  h.magic = BitsOfNat(WASM_MAGIC) /\ h.version = BitsOfNat(1)

\* the top of parse: the header is read and compared
parseHeader ==
  /\ parseState = "start"
  /\ LET h == header(reader) IN
     /\ reader' = h.r
     /\ IF h.err # "nil"
          THEN parseState' = "returned" /\ parseErr' = h.err
        ELSE IF ~headerMatches(h.v)
          THEN parseState' = "returned" /\ parseErr' = errInvalidWASMBinary
        ELSE parseState' = "sections" /\ parseErr' = "nil"
  /\ UNCHANGED <<interpVars, module, eaten>>

\* the section header the loop reads at its top
turn == sectionHeader(reader)

\* sectionHeader returned io.EOF: the loop is left and parse returns m, nil.
\* (sectionHeader returns no other error, so the return that follows the
\* break in the code is never taken.)
sectionLoopBreak ==
  /\ parseState = "sections"
  /\ turn.err = errEOF
  /\ reader' = turn.r
  /\ parseState' = "returned"
  /\ parseErr' = "nil"
  /\ UNCHANGED <<interpVars, module, eaten>>

\* one turn of the loop for the section id sid: d is what the decoder of the
\* case returns on the reader left by sectionHeader, m the module after the
\* assignment of the case
SectionCase(sid, d, m) ==
  /\ parseState = "sections"
  /\ turn.err = "nil"
  /\ turn.v.sid = sid
  /\ reader' = d.r
  /\ module' = m
  /\ parseErr' = d.err
  /\ parseState' = IF d.err # "nil" THEN "returned" ELSE "sections"
  /\ UNCHANGED <<interpVars, eaten>>

customSectionCase ==
  LET d == customSection(turn.r, turn.v.length)
  IN SectionCase(CustomSection, d, [module EXCEPT !.custom = d.v])

typeSectionCase ==
  LET d == typeSection(turn.r)
  IN SectionCase(TypeSection, d, [module EXCEPT !.types = d.v])

importSectionCase ==
  LET d == importSection(turn.r)
  IN SectionCase(ImportSection, d, [module EXCEPT !.imports = d.v])

funcSectionCase ==
  LET d == funcSection(turn.r)
  IN SectionCase(FunctionSection, d, [module EXCEPT !.funcs = d.v])

tableSectionCase ==
  LET d == tableSection(turn.r)
  IN SectionCase(TableSection, d, [module EXCEPT !.tables = d.v])

memorySectionCase ==
  LET d == memorySection(turn.r)
  IN SectionCase(MemorySection, d, [module EXCEPT !.mems = d.v])

globalSectionCase ==
  LET d == globalSection(turn.r)
  IN SectionCase(GlobalSection, d, [module EXCEPT !.globals = d.v])

exportSectionCase ==
  LET d == exportSection(turn.r)
  IN SectionCase(ExportSection, d, [module EXCEPT !.exports = d.v])

startSectionCase ==
  LET d == startSection(turn.r)
  IN SectionCase(StartSection, d, [module EXCEPT !.start = d.v])

elemSectionCase ==
  LET d == elemSection(turn.r)
  IN SectionCase(ElementSection, d, [module EXCEPT !.elems = d.v])

\* codeSection writes through fs into m.funcs
codeSectionCase ==
  LET d == codeSection(turn.r, module.funcs)
  IN SectionCase(CodeSection, d, [module EXCEPT !.funcs = d.v])

dataSectionCase ==
  LET d == dataSection(turn.r)
  IN SectionCase(DataSection, d, [module EXCEPT !.datas = d.v])

\* the ids the switch has a case for
KnownSectionIDs == CustomSection .. DataSection

\* a section id the switch has no case for: err stays nil, nothing of the
\* section is read and the loop goes on at the byte after the header
noSectionCase ==
  /\ parseState = "sections"
  /\ turn.err = "nil"
  /\ turn.v.sid \notin KnownSectionIDs
  /\ reader' = turn.r
  /\ UNCHANGED <<interpVars, module, parseState, parseErr, eaten>>

ParseNext ==
  \/ parseHeader
  \/ sectionLoopBreak
  \/ customSectionCase
  \/ typeSectionCase
  \/ importSectionCase
  \/ funcSectionCase
  \/ tableSectionCase
  \/ memorySectionCase
  \/ globalSectionCase
  \/ exportSectionCase
  \/ startSectionCase
  \/ elemSectionCase
  \/ codeSectionCase
  \/ dataSectionCase
  \/ noSectionCase

ParseSpec == ParseInit /\ [][ParseNext]_vars

(***************************************************************************)
(* Properties.                                                             *)
(***************************************************************************)
\* a finished invocation of export f of a module of kind k
Finished(k, f) == mod.kind = k /\ fn = f /\ phase = "idle"

\* C1: local.get k, executed in a function invoked with arguments
\* a_0..a_{n-1}, pushes a_k for every k < n.
C1_LocalGetPushesArgument ==
  [][(Dispatch("local.get") /\ Instr.localIdx < Len(args)
        /\ phase' = "running")
       => PopVal(valueStack') = args[Instr.localIdx + 1]]_vars

RECURSIVE byteAdd(_, _, _)
\* the byte-wise sum of two little-endian numbers of the same length, the
\* carry out of the last byte dropped
byteAdd(x, y, carry) ==
  IF x = <<>> THEN <<>>
  ELSE <<(x[1] + y[1] + carry) % 256>>
         \o byteAdd(Tail(x), Tail(y), (x[1] + y[1] + carry) \div 256)

\* C2: the exported add, invoked with (a, b), returns without error exactly
\* one i32 value, a+b wrapped to 32 bits.
C2_AddReturnsWrappedSum ==
  Finished("arith", "add") =>
    /\ ret.err = "nil"
    /\ ret.results = <<Value("I32", byteAdd(args[1].data, args[2].data, 0))>>

\* add(1, 1) has returned [2]
C2_Witness ==
  /\ Finished("arith", "add")
  /\ args = <<ValueFromI32(1), ValueFromI32(1)>>
  /\ ret = [err |-> "nil", results |-> <<ValueFromI32(2)>>]

\* C3: when an instruction returns an error the invoker returns that error
\* and no results, both stacks are empty afterwards, and no further
\* instruction of the invocation is executed (the next step is a new
\* invocation, or a call of GetFunc that runs no instruction).
C3_ErrorAbortsInvocation ==
  [][/\ (phase = "running" /\ ret'.err # "nil") =>
          /\ phase' = "idle"
          /\ ret'.results = <<>>
          /\ frameStack' = <<>>
          /\ valueStack' = <<>>
     /\ (phase = "idle" /\ ret.err # "nil") =>
          \/ calls' = calls + 1 /\ steps' = 0
          \/ /\ lookup' # lookup
             /\ UNCHANGED <<frameStack, valueStack, mems, ret, calls, steps>>]_vars

\* the second invocation on an interpreter has trapped
C3_Witness ==
  /\ phase = "idle"
  /\ calls = 2
  /\ ret = [err |-> errIntegerDivideByZero, results |-> <<>>]
  /\ frameStack = <<>>
  /\ valueStack = <<>>

\* C4: every instruction execution that returns without error changes the
\* control state: none succeeds leaving both pc and the frame stack as they
\* were.
C4_SuccessfulExecMovesControl ==
  [][(phase = "running" /\ steps' = steps + 1 /\ phase' = "running")
       => frameStack' # frameStack]_vars

\* the quotient of a by b truncated toward zero, for b # 0 and not
\* (a = MinInt32 and b = -1)
TruncQuot(a, b) ==
  LET pb == IF b < 0 THEN -b ELSE b
      t == (a \div pb) + (IF a < 0 /\ a % pb # 0 THEN 1 ELSE 0)
  IN IF b < 0 THEN -t ELSE t

\* C5: the exported div_s on (a, b) returns "integer divide by zero" when
\* b = 0, "integer overflow" when a = INT32_MIN and b = -1, and otherwise
\* the quotient of a by b truncated toward zero.
C5_DivSTrapsOrTruncates ==
  Finished("arith", "div_s") =>
    LET a == I32(args[1])
        b == I32(args[2])
    IN IF b = 0
         THEN ret = [err |-> errIntegerDivideByZero, results |-> <<>>]
       ELSE IF a = MinInt32 /\ b = -1
         THEN ret = [err |-> errIntegerOverflow, results |-> <<>>]
       ELSE /\ ret.err = "nil"
            /\ Len(ret.results) = 1
            /\ ret.results[1].ValType = "I32"
            /\ Len(ret.results[1].data) = 4
            /\ I32(ret.results[1]) = TruncQuot(a, b)

\* div_s(-7, 2) has returned [-3]
C5_Witness ==
  /\ Finished("arith", "div_s")
  /\ I32(args[1]) = -7
  /\ I32(args[2]) = 2
  /\ ret.err = "nil"
  /\ I32(ret.results[1]) = -3

\* byte k of v, counted from the least significant byte
ByteOf(v, k) == (v \div (256 ^ k)) % 256

\* C6: after i32.store of v at address 0, i32.load8_u at k returns byte k
\* of v counted from the least significant byte.
C6_StoreThenLoad8 ==
  Finished("mem", "st_ld8") =>
    /\ ret.err = "nil"
    /\ Len(ret.results) = 1
    /\ I32(ret.results[1]) = ByteOf(StoredValue, I32(args[1]))


\* an access of w bytes at base + off lies outside a memory of len bytes
OutOfRange(base, off, w, len) ==
  base < 0 \/ off < 0 \/ base > len - w - off

\* C7: a load returns "out of bounds memory access" when base < 0,
\* offset < 0 or base + offset + w is above the memory length, compared on
\* the true sum, and otherwise pushes the loaded value.
C7_LoadBoundsChecked ==
  (mod.kind = "mem" /\ fn = "load" /\ phase # "running") =>
    LET base == I32(args[1])
        w == loadWidth(mod.loadFn)
    IN IF OutOfRange(base, mod.offset, w, size(mems[1]))
         THEN /\ phase = "idle"
              /\ ret = [err |-> errOutOfBounds, results |-> <<>>]
         ELSE /\ phase = "idle"
              /\ ret.err = "nil"
              /\ Len(ret.results) = 1
              /\ SubSeq(ret.results[1].data, 1, w)
                   = ReadBytes(mems[1].data, base + mod.offset, w)

\* C8: a store whose byte range does not lie inside the memory makes the
\* invocation return "out of bounds memory access" and leaves every memory
\* byte unchanged.
C8_StoreOutOfBoundsTraps ==
  [][(Dispatch("store") /\ mems # <<>>
        /\ OutOfRange(I32(PopVal(PopRest(valueStack))), Instr.offset, 4,
                      size(mems[1])))
       => (/\ phase' = "idle"
           /\ ret'.err = errOutOfBounds
           /\ mems' = mems)]_vars

\* the declared maximum allows n more pages
GrowAllowed(m, n) ==
  n >= 0 /\ (m.memType.limits.Max < 0 \/ pages(m) + n <= m.memType.limits.Max)

\* C9: a memory.grow(n) that does not exceed the declared maximum pushes
\* the page count the memory had before, and the memory then has old + n
\* pages, the previous bytes preserved and the added bytes zero.
C9_GrowReturnsOldPages ==
  [][(Dispatch("memory.grow") /\ mems # <<>>
        /\ GrowAllowed(mems[1], I32(PopVal(valueStack))))
       => (/\ phase' = "running"
           /\ I32(PopVal(valueStack')) = pages(mems[1])
           /\ pages(mems'[1]) = pages(mems[1]) + I32(PopVal(valueStack))
           /\ mems'[1].data.set = mems[1].data.set)]_vars

\* C10: a memory.grow(n) that would pass the declared maximum pushes the
\* i32 value -1, does not trap, and leaves the memory unchanged.
C10_GrowPastMaxReturnsMinusOne ==
  [][(Dispatch("memory.grow") /\ mems # <<>>
        /\ I32(PopVal(valueStack)) >= 0
        /\ ~GrowAllowed(mems[1], I32(PopVal(valueStack))))
       => (/\ phase' = "running"
           /\ I32(PopVal(valueStack')) = -1
           /\ mems' = mems)]_vars

\* C11: memory.size pushes, as an i32, the number of pages of the memory
\* (its length divided by 65536), 1 on a memory instantiated with min = 1.
C11_MemorySizeInPages ==
  [][(Dispatch("memory.size") /\ mems # <<>>)
       => (/\ phase' = "running"
           /\ PopVal(valueStack').ValType = "I32"
           /\ I32(PopVal(valueStack')) = pages(mems[1]))]_vars

\* C12: in every reachable state the byte length of each memory instance
\* is a multiple of 65536.
C12_MemoryLengthWholePages ==
  \A i \in DOMAIN mems : size(mems[i]) % PAGE_SIZE = 0

\* two invocations have returned, the last one a memory.copy that wrote
\* bytes into the one-page memory
C12_Witness ==
  /\ mod.kind = "mem"
  /\ calls = MaxInvocations
  /\ phase = "idle"
  /\ fn = "copy"
  /\ ret.err = "nil"
  /\ ByteAt(mems[1].data, CopyDst) # 0
  /\ size(mems[1]) = PAGE_SIZE

\* parse has returned a module and no error
Parsed == parseState = "returned" /\ parseErr = "nil"

\* the nesting depth after the first k instructions of body: block, loop and
\* if open a construct, End closes one
Depth(body, k) ==
  Cardinality({j \in 1 .. k : body[j].op \in {"block", "loop", "if"}})
    - Cardinality({j \in 1 .. k : body[j].op = "end"})

\* the last instruction of body is the End of the function's implicit block:
\* every construct opened before it is closed, and no End before it closed
\* more than was open
ClosesFunction(body) ==
  /\ body[Len(body)].op = "end"
  /\ Depth(body, Len(body) - 1) = 0
  /\ \A k \in 1 .. Len(body) - 1 : Depth(body, k) >= 0

\* C13: a function body is decoded up to and including the End that closes
\* the function's implicit block; an End that closes a nested block, loop
\* or if does not terminate the body.
C13_BodyEndsAtFunctionEnd ==
  Parsed =>
    \A i \in DOMAIN module.funcs :
      module.funcs[i].body # <<>> => ClosesFunction(module.funcs[i].body)

\* every expression of the module: function bodies, global initialisers and
\* the offsets of element and data segments
ModuleExprs ==
  {module.funcs[i].body : i \in DOMAIN module.funcs}
    \cup {module.globals[i].initExpr : i \in DOMAIN module.globals}
    \cup {module.elems[i].offset : i \in DOMAIN module.elems}
    \cup {module.datas[i].offset : i \in DOMAIN module.datas}

\* C14: an opcode byte outside the implemented opcode table is a decode
\* error, so while parse has met no error no decoded expression contains an
\* absent (nil) instruction.
C14_NoNilInstr ==
  parseErr = "nil" =>
    \A e \in ModuleExprs : \A k \in DOMAIN e : e[k] # NilInstr

\* C15: when the section loop reads a section header whose id is not one of
\* 0..11, parse returns an error.
C15_UnknownSectionIdIsError ==
  [][(parseState = "sections" /\ turn.err = "nil" /\ turn.v.sid \notin 0 .. 11)
       => (parseState' = "returned" /\ parseErr' # "nil")]_vars

\* the input from rd on is a sequence of whole sections: an id byte, a
\* length, and as many bytes as the length says
RECURSIVE WholeSections(_)
WholeSections(rd) ==
  \/ rd.pos = Len(rd.bytes)
  \/ \E h \in {sectionHeader(rd)} :
       /\ h.err = "nil"
       /\ h.r.pos + h.v.length <= Len(rd.bytes)
       /\ WholeSections([h.r EXCEPT !.pos = @ + h.v.length])

\* C16: parse returns a module without error only when the input ends
\* exactly at a section boundary; an input that ends after a section id,
\* inside a length or inside a section body makes parse return an error.
C16_ModuleOnlyAtSectionBoundary ==
  Parsed => WholeSections([bytes |-> reader.bytes, pos |-> Len(wasmHeader)])

\* the first eight bytes of the input are the magic and the version 1
HeaderBytesOk ==
  /\ SubSeq(reader.bytes, 1, 4) = <<0, 97, 115, 109>>
  /\ SubSeq(reader.bytes, 5, 8) = <<1, 0, 0, 0>>

\* C17: for every input of at least 8 bytes whose magic or version is wrong,
\* parse returns the invalid-magic error and decodes no section.
C17_BadHeaderRejected ==
  (Len(reader.bytes) >= 8 /\ ~HeaderBytesOk /\ parseState # "start") =>
    /\ parseState = "returned"
    /\ parseErr = errInvalidWASMBinary
    /\ module = EmptyModule
    /\ reader.pos = 8

\* parse has rejected an input whose magic is right and whose version is 2,
\* with sections behind the header
C17_Witness ==
  /\ parseState = "returned"
  /\ parseErr = errInvalidWASMBinary
  /\ SubSeq(reader.bytes, 1, 5) = <<0, 97, 115, 109, 2>>
  /\ Len(reader.bytes) > 8

\* the first export of the name GetFunc was last called with, <<>> if none
FirstExport ==
  LET named == {i \in DOMAIN Exports(mod) : Exports(mod)[i].name = lookup.name}
  IN IF named = {} THEN <<>>
     ELSE <<Exports(mod)[CHOOSE i \in named : \A j \in named : i <= j]>>

\* C18: GetFunc(name) returns an error when no export has that name and
\* when the first export with that name is not of kind func, changing
\* neither the stacks nor the store; otherwise it returns an invoker bound
\* to the function at the export's index.  (Every step taken while no
\* invocation runs is a call of GetFunc, followed by the call of the invoker
\* when there is one.)
C18_GetFuncLookup ==
  [][phase = "idle" =>
       LET export == FirstExport'
           failed == /\ lookup'.err # "nil"
                     /\ phase' = "idle"
                     /\ UNCHANGED <<frameStack, valueStack, mems>>
       IN CASE export = <<>> -> failed
            [] export # <<>> /\ export[1].kind # exportImportKindFunc -> failed
            [] OTHER ->
                 /\ lookup'.err = "nil"
                 /\ phase' = "running"
                 /\ Len(frameStack') = 1
                 /\ frameStack'[1].fn = funcAddrs(mod)[export[1].idx + 1]]_vars

\* the bytes a call that started at from consumed: up to and including the
\* first byte whose high bit is clear
Consumed(from) == reader.pos - from
EndsAtFirstClear(from) ==
  /\ Consumed(from) >= 1
  /\ ~Bit(reader.bytes[reader.pos], 7)
  /\ \A k \in from + 1 .. reader.pos - 1 : Bit(reader.bytes[k], 7)

\* the low 7 bits of each consumed byte, least significant group first
Concat7(from) ==
  {j \in 0 .. 63 : /\ j \div 7 < Consumed(from)
                    /\ Bit(reader.bytes[from + (j \div 7) + 1], j % 7)}

\* C19: eatU64 returns the low 7 bits of each consumed byte concatenated
\* least-significant group first, consumes exactly the bytes up to and
\* including the first byte whose high bit is clear, and returns the
\* expected value for every encoding of the unsigned table (0, 0x7F, 0x80,
\* 0xFF, 0xFFFF, 2^64-1 among them).
C19_EatU64Decodes ==
  (eaten.fn = "eatU64" /\ eaten.err = "nil") =>
    /\ EndsAtFirstClear(eaten.from)
    /\ eaten.v = Concat7(eaten.from)
    /\ \A c \in unsignedCases :
         (reader.bytes = c.bytes /\ eaten.from = 0) =>
           (eaten.v = c.expect /\ reader.pos = Len(c.bytes))

\* eatU64 has returned 2^64-1 from its ten-byte encoding
C19_Witness ==
  /\ eaten.fn = "eatU64"
  /\ eaten.err = "nil"
  /\ eaten.from = 0
  /\ reader.bytes = Rep(255, 9) \o <<1>>
  /\ eaten.v = 0 .. 63

\* C20: eatI64 decodes like eatU64 and, when bit 6 of the terminating byte
\* is set, fills every bit above the accumulated position with 1; it
\* returns the expected value for every encoding of the signed table (-1,
\* 0, 1, 0x3F, 0x40, -0x40, -0x41, -624485, INT64_MIN, INT64_MAX), the
\* ten-byte ones included.
C20_EatI64SignExtends ==
  (eaten.fn = "eatI64" /\ eaten.err = "nil") =>
    /\ EndsAtFirstClear(eaten.from)
    /\ eaten.v = Concat7(eaten.from)
                   \cup (IF Bit(reader.bytes[reader.pos], 6)
                           THEN {j \in 0 .. 63 : j >= 7 * Consumed(eaten.from)}
                           ELSE {})
    /\ \A c \in signedCases :
         (reader.bytes = c.bytes /\ eaten.from = 0) =>
           (eaten.v = c.expect /\ reader.pos = Len(c.bytes))

\* eatI64 has returned INT64_MIN from its ten-byte encoding, and -0x40 from
\* the single byte 0x40 in another run
C20_Witness ==
  /\ eaten.fn = "eatI64"
  /\ eaten.err = "nil"
  /\ eaten.from = 0
  /\ reader.bytes = Rep(128, 9) \o <<127>>
  /\ eaten.v = {63}

\* the operands of the function applied, and its result
OperandA == args[1]
OperandB == args[2]
Result == ret.results[1]

(* C21: for int32 a and b with b # 0, (MinInt32, -1) left out, i32DivS and
   i32RemS return no error and div_s(a, b) * b + rem_s(a, b) = a in
   wrapping 32-bit arithmetic, whichever of the two was applied; and
   i32RemS(MinInt32, -1) returns 0 and no error. *)
C21_DivRemIdentity ==
  (fn \in {"i32DivS", "i32RemS"} /\ I32(OperandB) # 0) =>
    IF I32(OperandA) = MinInt32 /\ I32(OperandB) = -1
      THEN fn = "i32RemS" => (ret.err = "nil" /\ Result = ValueFromI32(0))
      ELSE /\ ret.err = "nil"
           /\ LET q == IF fn = "i32DivS" THEN Result
                       ELSE i32DivS(OperandA, OperandB).val
                  r == IF fn = "i32RemS" THEN Result
                       ELSE i32RemS(OperandA, OperandB).val
              IN i32Add(i32Mul(q, OperandB).val, r).val = OperandA

\* i32RemS was applied to a negative dividend that leaves a remainder, and
\* to (MinInt32, -1)
C21_Witness ==
  /\ fn = "i32RemS"
  /\ \/ I32(OperandA) = -7 /\ I32(OperandB) = 2 /\ I32(Result) = -1
     \/ I32(OperandA) = MinInt32 /\ I32(OperandB) = -1

\* the count reduced modulo the bit width, as a Value of the operand's type
ReducedCount(b) ==
  IF b.ValType = "I32" THEN ValueFromI32(I32(b) % 32)
  ELSE ValueFromI64(I64(b) \cap (0 .. 5))

ShiftFns ==
  {"i32Shl", "i32ShrS", "i32ShrU", "i32RotL", "i32RotR",
   "i64Shl", "i64ShrS", "i64ShrU", "i64RotL", "i64RotR"}

(* C22: a shift or rotation by count c returns what it returns for the
   count c mod 32 (c mod 64 for i64), c read as unsigned; shl(1, 32) = 1
   and shl(1, 33) = 2; a rotation by a multiple of the bit width returns
   its first operand. *)
C22_CountModuloWidth ==
  fn \in ShiftFns =>
    /\ ret.err = "nil"
    /\ Result = binFn(fn, OperandA, ReducedCount(OperandB)).val
    /\ (fn = "i32Shl" /\ I32(OperandA) = 1 /\ I32(OperandB) = 32)
         => Result = ValueFromI32(1)
    /\ (fn = "i32Shl" /\ I32(OperandA) = 1 /\ I32(OperandB) = 33)
         => Result = ValueFromI32(2)
    /\ (fn \in {"i32RotL", "i32RotR", "i64RotL", "i64RotR"}
          /\ ReducedCount(OperandB) \in {ValueFromI32(0), ValueFromI64({})})
         => Result = OperandA

\* i32Shl was applied to 1 and the count 33, and a 64-bit rotation to a
\* count of 64
C22_Witness ==
  \/ fn = "i32Shl" /\ I32(OperandA) = 1 /\ I32(OperandB) = 33
  \/ fn = "i64RotR" /\ OperandA = ValueFromI64({0, 63})
       /\ OperandB = ValueFromI64({6})

\* an invocation of export f is under way, its frame on top
Running(f) == phase = "running" /\ fn = f /\ frameStack # <<>>

\* the pc of the br_if of countdown: the instructions of one pass
FirstPass ==
  (CHOOSE k \in DOMAIN BrFuncs.countdown.body :
     BrFuncs.countdown.body[k].op = "br_if") - 1

(* C23: in an invocation of countdown with a counter n >= 1 the loop is
   entered and its body is executed: the k-th instruction dispatched is
   instruction k of the function, up to the br_if that ends the first pass,
   with the one label of the loop; and an invocation that has returned
   returned no error and left no frame. *)
C23_CountdownRunsBody ==
  /\ (Running("countdown") /\ steps <= FirstPass) =>
       (Frame.pc = steps /\ Len(Frame.labels) = (IF steps = 0 THEN 0 ELSE 1))
  /\ (phase = "idle" /\ fn = "countdown") =>
       (ret.err = "nil" /\ frameStack = <<>>)

\* the level the claim has br_table take for index i: i is compared as an
\* unsigned number, so that no negative i is below the length
ClaimedLevel(o, i) ==
  IF i >= 0 /\ i < Len(o.labelIdxArr) THEN o.labelIdxArr[i + 1]
  ELSE o.defaultIdx

(* C24: br_table pops one i32 index i and branches to the label at level
   T[i] when i, read as unsigned, is below len(T), and to the label at the
   default level otherwise, negative i included: the step pops the index
   and leaves the frame at the pc br gives for that level. *)
C24_BrTableSelects ==
  [][(phase = "running" /\ frameStack # <<>> /\ Instr.op = "br_table") =>
       /\ phase' = "running"
       /\ valueStack' = PopRest(valueStack)
       /\ frameStack' =
            SetTop(frameStack,
                   [Frame EXCEPT !.pc =
                      br(Frame.labels,
                         ClaimedLevel(Instr, I32(PopVal(valueStack)))).pc])
    ]_vars

\* Execute is about to dispatch an instruction of kind o
AtInstr(o) == phase = "running" /\ frameStack # <<>> /\ Instr.op = o

\* the global instruction at pc went through without an error
GlobalStepDone == phase' = "running" /\ steps' = steps + 1

(* C25: a global.set i that succeeds leaves the value on top of the operand
   stack in global i of the store and every other global as it was, and a
   global.get i pushes the value the store holds for global i. *)
C25_GlobalSetStores ==
  [][/\ (AtInstr("global.set") /\ GlobalStepDone) =>
          globals' = [globals EXCEPT ![Instr.globalIdx + 1].value =
                                       PopVal(valueStack)]
     /\ (AtInstr("global.get") /\ GlobalStepDone) =>
          valueStack' = Push(valueStack, globals[Instr.globalIdx + 1].value)
    ]_vars

\* a global.set is about to fail one of its two checks
SetMustFail ==
  /\ AtInstr("global.set")
  /\ Instr.globalIdx < Len(globals)
  /\ \/ globals[Instr.globalIdx + 1].globalType.mut = const_
     \/ globals[Instr.globalIdx + 1].globalType.valueType
          # TypeTag(PopVal(valueStack).ValType)

(* C26: a global.set on an immutable global, or with a value on top whose
   type tag is not the global's declared value type, returns an error: the
   invocation ends with that error, and the globals of the store are what
   they were. *)
C26_GlobalSetRejects ==
  [][SetMustFail =>
       (phase' = "idle" /\ ret'.err # "nil" /\ globals' = globals)]_vars

\* a global.set on the immutable global has returned its error, with the
\* globals holding their initial values
C26_Witness ==
  /\ phase = "idle"
  /\ fn = "set1"
  /\ ret.err = errGlobalConst
  /\ globals = NewGlobals(mod)
  /\ Len(globals) = 3

\* the number of locals function f declares behind its parameters
DeclaredLocals(f) ==
  IF "nlocals" \in DOMAIN Funcs(mod)[f] THEN Funcs(mod)[f].nlocals ELSE 0

\* the local indices of f's declared locals: p .. p + d - 1
DeclaredLocalIdxs(f) ==
  Funcs(mod)[f].nparams .. (Funcs(mod)[f].nparams + DeclaredLocals(f) - 1)

\* v is a zero value: each of its bytes is 0
IsZeroValue(v) == \A j \in DOMAIN v.data : v.data[j] = 0

(* C27: when the invoker has set up the call of a function with p parameters
   and d declared locals, and no body instruction has run yet, the operand
   stack has the slots sp+p .. sp+p+d-1 and each holds a zero value. *)
C27_LocalsZeroed ==
  (phase = "running" /\ frameStack # <<>> /\ steps = 0) =>
    \A k \in DeclaredLocalIdxs(Frame.fn) :
      /\ GetOk(valueStack, Frame.sp, k)
      /\ IsZeroValue(GetVal(valueStack, Frame.sp, k))

(***************************************************************************)
(* Instantiation: the data segment loop of newStoreAndModuleInst, one      *)
(* action per outcome of a pass, on modules with one memory and one or     *)
(* two data segments.  mod is the module, mems the memories of the store   *)
(* being built, steps the index of the next segment, ret.err the error     *)
(* NewInterpreter returns.                                                 *)
(***************************************************************************)
errDataTooLarge == "data is too large to fit in memory"

MaxDatas == 2
InstMins == {0, 1}
InstOffsets == {MinInt32, -1, 0, 3, PAGE_SIZE - 3, PAGE_SIZE, MaxInt32}
InstInits == {<<>>, <<1, 2>>, <<7, 0, 9, 10>>}

\* a data segment of memory 0 whose offset is the constant expression o
DataSegment(o, init) ==
  [memIdx |-> 0, offset |-> <<OpConst(o), OpEnd>>, init |-> init]

InstDatas ==
  UNION {[1 .. n -> {DataSegment(o, b) : o \in InstOffsets, b \in InstInits}] :
           n \in 1 .. MaxDatas}

InstModules ==
  {[kind |-> "inst", mems |-> <<[limits |-> [Min |-> n, Max |-> -1]]>>,
    datas |-> ds] : n \in InstMins, ds \in InstDatas}

\* the memories loop: Min pages of zero bytes for each memory
InstMems(m) ==
  [i \in 1 .. Len(m.mems) |->
     [memType |-> m.mems[i], data |-> MakeBytes(m.mems[i].limits.Min * PAGE_SIZE)]]

InstantiateInit ==
  /\ mod \in InstModules
  /\ frameStack = <<>>
  /\ valueStack = <<>>
  /\ mems = InstMems(mod)
  /\ globals = <<>>
  /\ phase = "instantiating"
  /\ fn = ""
  /\ args = <<>>
  /\ ret = NoRet
  /\ calls = 0
  /\ steps = 0
  /\ lookup = NoLookup
  /\ ParserIdle

\* offset := int(offsetVal.I32()) of the segment's evaluated offset
dataOffset(data) == I32(eval(data.offset))

\* len(mem.data) < offset + len(data.init), on int
dataTooLarge(mem, data) == mem.data.len - Len(data.init) < dataOffset(data)

\* the slice expression mem.data[offset:] panics
dataSlicePanics(mem, data) ==
  dataOffset(data) < 0 \/ dataOffset(data) > mem.data.len

\* the segment the data loop is at, and its memory
Data == mod.datas[steps + 1]
DataMem == mems[Data.memIdx + 1]
InDataLoop == phase = "instantiating" /\ steps < Len(mod.datas)

InstUnchanged ==
  /\ UNCHANGED <<mod, frameStack, valueStack, globals, fn, args, calls, lookup>>
  /\ UNCHANGED parserVars

\* a pass of the data loop that copies the init bytes in
dataCopy ==
  /\ InDataLoop
  /\ ~dataTooLarge(DataMem, Data)
  /\ ~dataSlicePanics(DataMem, Data)
  /\ mems' = [mems EXCEPT ![Data.memIdx + 1].data =
                CopyInto(@, dataOffset(Data), Data.init)]
  /\ steps' = steps + 1
  /\ UNCHANGED <<phase, ret>>
  /\ InstUnchanged

\* a pass that returns the error: NewInterpreter returns Interpreter{} and
\* the error
dataError ==
  /\ InDataLoop
  /\ dataTooLarge(DataMem, Data)
  /\ mems' = <<>>
  /\ phase' = "idle"
  /\ ret' = [err |-> errDataTooLarge, results |-> <<>>]
  /\ UNCHANGED steps
  /\ InstUnchanged

\* a pass whose check lets the segment through and whose slice expression
\* panics
dataPanic ==
  /\ InDataLoop
  /\ ~dataTooLarge(DataMem, Data)
  /\ dataSlicePanics(DataMem, Data)
  /\ phase' = "panicked"
  /\ UNCHANGED <<mems, ret, steps>>
  /\ InstUnchanged

\* the loop is over: NewInterpreter returns the interpreter and no error
instantiated ==
  /\ phase = "instantiating"
  /\ steps = Len(mod.datas)
  /\ phase' = "idle"
  /\ ret' = NoRet
  /\ UNCHANGED <<mems, steps>>
  /\ InstUnchanged

InstantiateNext == dataCopy \/ dataError \/ dataPanic \/ instantiated

InstantiateSpec == InstantiateInit /\ [][InstantiateNext]_vars

\* the range of segment i of the module lies inside its memory as declared
SegmentFits(i) ==
  /\ dataOffset(mod.datas[i]) >= 0
  /\ dataOffset(mod.datas[i])
       <= mod.mems[mod.datas[i].memIdx + 1].limits.Min * PAGE_SIZE
            - Len(mod.datas[i].init)

AllSegmentsFit == \A i \in DOMAIN mod.datas : SegmentFits(i)

\* byte address j of memory 0 is in the range of segment i
Covers(i, j) ==
  /\ dataOffset(mod.datas[i]) <= j
  /\ j - dataOffset(mod.datas[i]) < Len(mod.datas[i].init)

(* C28: when NewInterpreter is over, a module with a data segment whose
   range is not inside its memory, a negative offset included, has got an
   error back; a module whose segments all fit has got no error, the bytes
   of each segment's range are its init bytes, and every byte no segment
   covers is zero. *)
C28_DataSegments ==
  (mod.kind = "inst" /\ phase # "instantiating") =>
    IF AllSegmentsFit
      THEN /\ phase = "idle"
           /\ ret.err = "nil"
           /\ \A i \in DOMAIN mod.datas :
                ReadBytes(mems[1].data, dataOffset(mod.datas[i]),
                          Len(mod.datas[i].init)) = mod.datas[i].init
           /\ \A j \in DOMAIN mems[1].data.set :
                \E i \in DOMAIN mod.datas : Covers(i, j)
      ELSE phase = "idle" /\ ret.err # "nil"

(* C29: an end executed while the frame has a label pops exactly one label
   and goes on with the instruction right behind that end, in the same
   frame; an end executed with an empty label stack pops the frame. *)
C29_EndFallsThrough ==
  [][Dispatch("end") =>
       frameStack' =
         (IF Frame.labels = <<>>
            THEN PopRest(frameStack)
            ELSE SetTop(frameStack,
                        [Frame EXCEPT !.labels = PopRest(@),
                                      !.pc = Frame.pc + 1]))]_vars

\* the instructions that open a construct
Openers == {"block", "loop", "if"}

\* the number of block, loop and if constructs of insts that are open at
\* pc: those opened before pc and not closed by an end before pc
EnclosingDepth(insts, pc) ==
  Cardinality({j \in 1 .. pc : j <= Len(insts) /\ insts[j].op \in Openers})
    - Cardinality({j \in 1 .. pc : j <= Len(insts) /\ insts[j].op = "end"})

\* the static nesting depth of a body
NestingDepth(insts) ==
  CHOOSE d \in 0 .. Len(insts) :
    /\ \E pc \in 0 .. Len(insts) : EnclosingDepth(insts, pc) = d
    /\ \A pc \in 0 .. Len(insts) : EnclosingDepth(insts, pc) <= d

(* C30: while an invocation runs, the label stack of the current frame has
   one label for each block, loop and if construct that is open at the
   current pc; it is never deeper than the static nesting depth of the
   body, and it is empty when pc is at an end outside every construct. *)
C30_LabelsMatchNesting ==
  (phase = "running" /\ frameStack # <<>>) =>
    /\ Len(Frame.labels) = EnclosingDepth(Insts, Frame.pc)
    /\ Len(Frame.labels) <= NestingDepth(Insts)
    /\ (/\ Frame.pc < Len(Insts)
        /\ Instr.op = "end"
        /\ EnclosingDepth(Insts, Frame.pc) = 0) => Frame.labels = <<>>

\* the label a branch of level l resolves to: the l-th from the top
TargetLabel(l) == Frame.labels[Len(Frame.labels) - l]

(* C31: a br L whose L-th label from the top is not a loop label sets pc to
   that label's endPc and takes the L+1 innermost labels off the label
   stack; a br L to a loop label sets pc to that label's startPc. *)
C31_BrUnwindsLabels ==
  [][(Dispatch("br") /\ Instr.level < Len(Frame.labels)) =>
       IF TargetLabel(Instr.level).kind = "loop"
         THEN /\ Len(frameStack') = Len(frameStack)
              /\ frameStack'[Len(frameStack)].pc
                   = TargetLabel(Instr.level).startPc
         ELSE frameStack' =
                SetTop(frameStack,
                       [Frame EXCEPT
                          !.pc = TargetLabel(Instr.level).endPc,
                          !.labels = SubSeq(Frame.labels, 1,
                                            Len(Frame.labels)
                                              - Instr.level - 1)])]_vars

(* C32: an if executed with a non-zero condition pops that one operand,
   pushes one label of kind if, and goes on with the instruction after the
   if, the first of the then-arm. *)
C32_TakenIfEntersThenArm ==
  [][(Dispatch("if") /\ ~BoolPanics(PopVal(valueStack))
        /\ Bool(PopVal(valueStack))) =>
       /\ valueStack' = PopRest(valueStack)
       /\ Len(frameStack') = Len(frameStack)
       /\ frameStack'[Len(frameStack)].pc = Frame.pc + 1
       /\ Len(frameStack'[Len(frameStack)].labels) = Len(Frame.labels) + 1
       /\ PopVal(frameStack'[Len(frameStack)].labels).kind = "if"]_vars

\* pc is at the last instruction of the body, the end that closes the if of
\* ifelse and of ifonly
AtLastEnd == Frame.pc = Len(Insts) - 1

\* the operand stack from the top frame's sp on: the arguments and what the
\* call has pushed
FrameOperands == SubSeq(valueStack, Frame.sp + 1, Len(valueStack))

(* C33: with a zero condition, when control reaches the end that matches
   the if, the instructions of the else-arm have been executed once and
   none of the then-arm: in ifelse the operand stack of the call is the
   argument and the 2 the else-arm pushes, in ifonly, which has no else, it is the
   argument alone. *)
C33_ZeroConditionRunsElseArm ==
  (phase = "running" /\ frameStack # <<>> /\ args = <<ValueFromI32(0)>>
     /\ AtLastEnd) =>
    /\ fn = "ifelse" => FrameOperands = <<ValueFromI32(0), ValueFromI32(2)>>
    /\ fn = "ifonly" => FrameOperands = <<ValueFromI32(0)>>

(***************************************************************************)
(* The scans of instr_control.go on their own: nextEndAddr and             *)
(* nextElseOrEndAddr applied to instruction sequences with balanced        *)
(* constructs, at the pc behind an opener.  mod holds the sequence, steps  *)
(* the pc, fn the scan called and ret.results the address it returned.     *)
(***************************************************************************)
MaxScanLen == 5
ScanInstrs == {OpBlock, OpLoop, OpIf, OpElse, OpEnd, OpNop}

RECURSIVE BalancedFrom(_, _, _)
\* the constructs of insts from index i on are balanced, open being the
\* constructs open at i: every end closes an opener, an else stands in an
\* if that has none yet, and nothing is left open
BalancedFrom(insts, i, open) ==
  IF i > Len(insts) THEN open = <<>>
  ELSE IF insts[i].op \in Openers
    THEN BalancedFrom(insts, i + 1, Append(open, insts[i].op))
  ELSE IF insts[i].op = "else"
    THEN /\ open # <<>>
         /\ open[Len(open)] = "if"
         /\ BalancedFrom(insts, i + 1, [open EXCEPT ![Len(open)] = "else"])
  ELSE IF insts[i].op = "end"
    THEN /\ open # <<>>
         /\ BalancedFrom(insts, i + 1, SubSeq(open, 1, Len(open) - 1))
  ELSE BalancedFrom(insts, i + 1, open)

ScanInputs ==
  {insts \in UNION {[1 .. n -> ScanInstrs] : n \in 2 .. MaxScanLen} :
     BalancedFrom(insts, 1, <<>>)}

ScanInit ==
  /\ mod \in {[kind |-> "scan", insts |-> insts] : insts \in ScanInputs}
  /\ frameStack = <<>>
  /\ valueStack = <<>>
  /\ mems = <<>>
  /\ globals = <<>>
  /\ phase = "idle"
  /\ fn = ""
  /\ args = <<>>
  /\ ret = NoRet
  /\ calls = 0
  /\ steps = 0
  /\ lookup = NoLookup
  /\ ParserIdle

\* one call scan(pc, insts), as an exec method makes it: pc is the index
\* behind the opener being executed
ScanCall(scan, pc, opener, addr) ==
  /\ fn = ""
  /\ mod.insts[pc].op \in opener
  /\ fn' = scan
  /\ steps' = pc
  /\ ret' = [err |-> IF addr < 0 THEN errNoEnd ELSE "nil",
             results |-> <<addr>>]
  /\ UNCHANGED <<mod, frameStack, valueStack, mems, globals, phase, args,
                 calls, lookup>>
  /\ UNCHANGED parserVars

\* opIf.exec, opLoop.exec and opBlock.exec call nextEndAddr(frame.pc+1, ..)
nextEndAddrCall ==
  \E pc \in 1 .. Len(mod.insts) :
    ScanCall("nextEndAddr", pc, Openers, nextEndAddr(pc, mod.insts))

\* opIf.exec calls nextElseOrEndAddr(frame.pc+1, ..)
nextElseOrEndAddrCall ==
  \E pc \in 1 .. Len(mod.insts) :
    ScanCall("nextElseOrEndAddr", pc, {"if"},
             nextElseOrEndAddr(pc, mod.insts))

ScanNext == nextEndAddrCall \/ nextElseOrEndAddrCall

ScanSpec == ScanInit /\ [][ScanNext]_vars

\* the number of instructions of kind ops among insts[pc .. j-1] (indices
\* from 0, as the code counts)
CountOps(insts, pc, j, ops) ==
  Cardinality({k \in (pc + 1) .. j : insts[k].op \in ops})

\* index j holds an instruction of kind ops at the level of the construct
\* whose body starts at pc: every construct opened in pc .. j-1 is closed
\* before j
AtBodyLevel(insts, pc, j, ops) ==
  /\ insts[j + 1].op \in ops
  /\ CountOps(insts, pc, j, Openers) = CountOps(insts, pc, j, {"end"})

\* the first index from pc on that holds one of ops at the body's level
FirstAtBodyLevel(insts, pc, ops) ==
  CHOOSE j \in pc .. (Len(insts) - 1) :
    /\ AtBodyLevel(insts, pc, j, ops)
    /\ \A k \in pc .. (j - 1) : ~AtBodyLevel(insts, pc, k, ops)

(* C34: on a sequence with balanced constructs nextEndAddr(pc, insts) is
   the index of the end that closes the construct whose body starts at pc,
   every nested block, loop and if skipped, and nextElseOrEndAddr(pc,
   insts) is the index of the else or end of the if whose body starts at
   pc. *)
C34_ScansFindMatching ==
  /\ fn = "nextEndAddr" =>
       ret.results[1] = FirstAtBodyLevel(mod.insts, steps, {"end"})
  /\ fn = "nextElseOrEndAddr" =>
       ret.results[1] = FirstAtBodyLevel(mod.insts, steps, {"else", "end"})

(***************************************************************************)
(* parser.instr on its own: the encoding of one instruction, the opcode    *)
(* byte and its immediate bytes, with the End opcode behind it, is decoded *)
(* by successive calls of instr.                                           *)
(***************************************************************************)
\* the immediates given to the opcodes that take one index
IndexImmediates == {<<0>>, <<1>>, <<11>>, <<128, 1>>}

\* br, br_if, call, local.tee, global.get and global.set take one index;
\* br_table a vector of labels and a default; call_indirect two indices;
\* f32.const 4 bytes and f64.const 8; the conversions take none
InstrEncodings ==
  {<<op>> \o imm : op \in {12, 13, 16, 34, 35, 36}, imm \in IndexImmediates}
    \cup {<<14, 2, 1, 0, 1>>, <<14, 0, 0>>, <<17, 0, 0>>, <<17, 1, 0>>,
          <<67, 0, 0, 128, 63>>, <<68, 0, 0, 0, 0, 0, 0, 240, 63>>}
    \cup {<<op>> : op \in 167 .. 191}

InstrInit ==
  /\ NoInterpreter
  /\ reader \in {[bytes |-> b \o <<11>>, pos |-> 0] : b \in InstrEncodings}
  /\ module = EmptyModule
  /\ parseState = "returned"
  /\ parseErr = "nil"
  /\ eaten = NoEaten

\* one call of instr, as the loop of expr makes it: after calls that
\* returned no error and no End
instrCall ==
  /\ eaten.fn = "instr" => ~eaten.v.isEnd
  /\ Eat("instr", instr(reader))

InstrNext == instrCall

InstrSpec == InstrInit /\ [][InstrNext]_vars

(* C35: decoding br, br_if, br_table, local.tee, global.get, global.set,
   call, call_indirect, f32.const, f64.const or a conversion opcode yields
   an instruction (not nil), and leaves the cursor behind the opcode and
   all its immediate bytes, here on the End byte that follows them. *)
C35_ImmediatesConsumed ==
  (eaten.fn = "instr" /\ eaten.from = 0) =>
    /\ eaten.err = "nil"
    /\ eaten.v.i # NilInstr
    /\ reader.pos = Len(reader.bytes) - 1

(* C36: a store instruction takes exactly two operands off the operand
   stack, the value on top and the base address beneath it: after a store
   that went through, the stack is the one before it without its two
   topmost values. *)
C36_StorePopsTwo ==
  [][(Dispatch("store") /\ Len(valueStack) >= Frame.sp + 2
        /\ phase' = "running") =>
       valueStack' = PopRest(PopRest(valueStack))]_vars

(* C37: after an invocation has returned successfully the frame stack is
   empty and the operand stack holds as many values as before the
   invocation.  A new interpreter has an empty operand stack and a failed
   invocation empties it, so whenever no invocation runs the operand stack
   is empty. *)
C37_OperandStackRestored ==
  (mod.kind # "none" /\ phase = "idle") =>
    (frameStack = <<>> /\ valueStack = <<>>)

\* an operand stack ending in x, y: y is on top and x beneath it
OperandX == PopVal(PopRest(valueStack))
OperandY == PopVal(valueStack)

(* C38: a binary or relational instruction applied to an operand stack
   ending in x, y (y pushed last) replaces both with x op y, x being the
   left operand. *)
C38_LeftOperandIsBeneath ==
  [][/\ (Dispatch("bin") /\ phase' = "running") =>
          valueStack' = Push(PopRest(PopRest(valueStack)),
                             binFn(Instr.binFn, OperandX, OperandY).val)
     /\ Dispatch("rel") =>
          valueStack' = Push(PopRest(PopRest(valueStack)),
                             numericBool(relFn(Instr.relFn, OperandX,
                                               OperandY)))]_vars

\* the level a branch instruction at pc is about to take, -1 when it takes
\* none: br always, br_if when the condition on top is not zero, br_table
\* by the index on top
BranchLevel ==
  CASE Instr.op = "br" -> Instr.level
    [] Instr.op = "br_if" ->
         IF ~BoolPanics(PopVal(valueStack)) /\ Bool(PopVal(valueStack))
           THEN Instr.level ELSE -1
    [] Instr.op = "br_table" ->
         IF brTableLevel(Instr, I32(PopVal(valueStack))).panic THEN -1
         ELSE brTableLevel(Instr, I32(PopVal(valueStack))).level
    [] OTHER -> -1

(* C39: a br, a taken br_if and a br_table whose label level is not below
   the number of labels on the current frame return an error, also when
   the label stack is not empty: the invocation ends with that error. *)
C39_BranchPastLabelsIsError ==
  [][(phase = "running" /\ frameStack # <<>> /\ steps < MaxSteps
        /\ BranchLevel >= Len(Frame.labels)) =>
       (phase' = "idle" /\ ret'.err = errNoLabel)]_vars

(* C40: every body of the model has end as its last instruction, and
   whenever the frame stack is not empty the pc of the top frame is an
   index of its instructions, 0 <= pc < len(insts), so that the fetch
   insts[pc] of the dispatch loop is inside the body. *)
C40_PcInsideBody ==
  /\ \A m \in Modules : \A f \in DOMAIN Funcs(m) :
       Funcs(m)[f].body[Len(Funcs(m)[f].body)] = OpEnd
  /\ (phase = "running" /\ frameStack # <<>>) =>
       (0 <= Frame.pc /\ Frame.pc < Len(Insts))

\* br_table has jumped to the end of the outer block of brtable, the
\* instruction before the last of the body, with both labels on the frame
C40_Witness ==
  /\ Running("brtable")
  /\ Frame.pc = Len(Insts) - 2
  /\ Len(Frame.labels) = 2
  /\ PopVal(Frame.labels).endPc < Frame.pc
====
